---- MODULE Spec2Model ----
(***************************************************************************)
(* Model of the offline cache controller (the service worker, sw.js) of    *)
(* the TuMatch "Protocolos" site: install / activate lifecycle, the fetch  *)
(* listener, handleFetch with its two strategies (cacheFirst and           *)
(* networkFirst), the detached background refresh, the un-awaited          *)
(* cache.put calls and the offline fallback generator.                     *)
(*                                                                         *)
(* An `await` of the source is a suspension point and a separate step of   *)
(* the model; code between two awaits runs atomically (single-threaded     *)
(* event loop).  `await caches.open(..)` directly followed by              *)
(* `await cache.match(..)` is one step taken at the moment of the match:   *)
(* open only creates the named cache, which no fetch handling reads.       *)
(* Network and cache-storage outcomes are chosen by the environment.       *)
(***************************************************************************)
EXTENDS Integers, Sequences, FiniteSets, TLC

(***************************************************************************)
(* Bounds of the model.                                                    *)
(***************************************************************************)
\* number of fetch events whose handling may be in flight at once
MaxHandlers == 1
\* total number of fetch events delivered in one behaviour
MaxEvents == 2
\* number of cleanupCaches passes in one behaviour
MaxPasses == 1

(***************************************************************************)
(* URLs.  A URL is tokenised: scheme, host labels, directories, file name  *)
(* and extension, so that the regular expressions and string comparisons   *)
(* of the source are computed on its parts.                                *)
(***************************************************************************)
Url(scheme, host, dirs, file, ext) ==
    [scheme |-> scheme, host |-> host, dirs |-> dirs, file |-> file, ext |-> ext]

\* url.pathname
Pathname(url) == [dirs |-> url.dirs, file |-> url.file, ext |-> url.ext]

\* url.origin (scheme and host)
Origin(url) == [scheme |-> url.scheme, host |-> url.host]

\* location.origin of the service worker
SelfHost == <<"protocolos", "example">>
LocationOrigin == [scheme |-> "https:", host |-> SelfHost]

SameOriginUrl(dirs, file, ext) == Url("https:", SelfHost, dirs, file, ext)

\* const CACHE_NAME / STATIC_CACHE / DYNAMIC_CACHE
CACHE_NAME == <<"tumatch-protocolo-", "v1.0.0">>
STATIC_CACHE == CACHE_NAME \o <<"-static">>
DYNAMIC_CACHE == CACHE_NAME \o <<"-dynamic">>

\* const STATIC_ASSETS (url.pathname values)
STATIC_ASSETS ==
    << [dirs |-> <<>>, file |-> "", ext |-> ""],
       [dirs |-> <<>>, file |-> "Inicio", ext |-> "html"],
       [dirs |-> <<"css">>, file |-> "variables", ext |-> "css"],
       [dirs |-> <<"css">>, file |-> "base", ext |-> "css"],
       [dirs |-> <<"css">>, file |-> "components", ext |-> "css"],
       [dirs |-> <<"css">>, file |-> "layout", ext |-> "css"],
       [dirs |-> <<"js">>, file |-> "utils", ext |-> "js"],
       [dirs |-> <<"js">>, file |-> "search", ext |-> "js"],
       [dirs |-> <<"js">>, file |-> "modal", ext |-> "js"],
       [dirs |-> <<"js">>, file |-> "main", ext |-> "js"],
       [dirs |-> <<>>, file |-> "manifest", ext |-> "json"] >>

\* const DYNAMIC_ASSETS_PATTERNS: /\.html$/, /\.css$/, ... on url.pathname
DYNAMIC_ASSETS_PATTERNS ==
    <<"html", "css", "js", "png", "jpg", "jpeg", "svg", "webp">>

\* const NETWORK_FIRST_PATTERNS: /\/api\//, /googleapis\.com/, ... on url.href.
\* A pattern is the directory it looks for or the run of host labels.
NETWORK_FIRST_PATTERNS ==
    << [dir |-> "api", labels |-> <<>>],
       [dir |-> "", labels |-> <<"googleapis", "com">>],
       [dir |-> "", labels |-> <<"googleusercontent", "com">>],
       [dir |-> "", labels |-> <<"youtube", "com">>],
       [dir |-> "", labels |-> <<"docs", "google", "com">>] >>

Range(s) == {s[i] : i \in 1..Len(s)}

\* s contains t as a contiguous run
ContainsRun(s, t) ==
    \E i \in 0..(Len(s) - Len(t)) : \A j \in 1..Len(t) : s[i + j] = t[j]

\* pattern.test(url.href)
PatternTest(pattern, url) ==
    IF pattern.dir # ""
    THEN pattern.dir \in Range(url.dirs)
    ELSE ContainsRun(url.host, pattern.labels)

\* NETWORK_FIRST_PATTERNS.some(pattern => pattern.test(url.href))
MatchesNetworkFirst(url) ==
    \E i \in 1..Len(NETWORK_FIRST_PATTERNS) : PatternTest(NETWORK_FIRST_PATTERNS[i], url)

\* DYNAMIC_ASSETS_PATTERNS.some(pattern => pattern.test(url.pathname))
MatchesDynamicAsset(url) ==
    \E i \in 1..Len(DYNAMIC_ASSETS_PATTERNS) : url.ext = DYNAMIC_ASSETS_PATTERNS[i]

\* STATIC_ASSETS.includes(url.pathname)
IsStaticAssetPath(url) == Pathname(url) \in Range(STATIC_ASSETS)

(***************************************************************************)
(* Requests and responses.                                                 *)
(***************************************************************************)
\* a media type of an accept header
Html == <<"text", "html">>
Webp == <<"image", "webp">>
AnyType == <<"*", "*">>

\* request.headers.get('accept')?.includes('text/html'); a request without
\* the header carries the empty set
AcceptsHtml(request) == Html \in request.accept

\* request.headers.get('accept')?.includes('image')
AcceptsImage(request) == \E t \in request.accept : t[1] = "image"

NetworkResponse(status, seq) ==
    [kind |-> "network", status |-> status, contentType |-> "resource",
     cacheControl |-> "", body |-> seq]

\* new Response(`<svg ...>Sin conexion</svg>`, {headers: {...}})
SvgPlaceholder ==
    [kind |-> "svg", status |-> 200, contentType |-> "image/svg+xml",
     cacheControl |-> "no-cache", body |-> 0]

\* new Response('Contenido no disponible sin conexion', {status: 503, ...})
GenericOffline ==
    [kind |-> "text", status |-> 503, contentType |-> "text/plain",
     cacheControl |-> "", body |-> 0]

\* undefined: the value of cache.match on a miss, and of a response not yet there
NoResponse ==
    [kind |-> "none", status |-> 0, contentType |-> "", cacheControl |-> "", body |-> 0]

\* response.ok
Ok(response) == response.status \in 200..299

(***************************************************************************)
(* A cache store is the sequence of its entries in insertion order; the    *)
(* key of an entry is the URL of its GET request.                          *)
(***************************************************************************)
Keys(store) == {store[i].key : i \in 1..Len(store)}

\* cache.match(request): the stored response, or undefined
Match(store, key) ==
    IF key \in Keys(store)
    THEN (CHOOSE e \in Range(store) : e.key = key).response
    ELSE NoResponse

\* cache.delete(request)
Delete(store, key) == SelectSeq(store, LAMBDA e : e.key # key)

\* Put into a store of limited size: a new key evicts the oldest entry once
\* the store holds as many entries as the install list
PutEvicting(store, key, response) ==
    IF key \notin Keys(store) /\ Len(store) >= Len(STATIC_ASSETS)
    THEN Append(Tail(store), [key |-> key, response |-> response])
    ELSE Append(Delete(store, key), [key |-> key, response |-> response])

\* Put that adds the entry without removing the one of the same key
PutAppendOnly(store, key, response) ==
    Append(store, [key |-> key, response |-> response])

\* cache.put(request, response): replaces the entry of the same key
Put(store, key, response) ==
    Append(Delete(store, key), [key |-> key, response |-> response])

(***************************************************************************)
(* The URLs and requests of the environment.                               *)
(***************************************************************************)
InicioUrl == SameOriginUrl(<<>>, "Inicio", "html")
LogoUrl == SameOriginUrl(<<"img">>, "logo", "png")
ApiJsUrl == SameOriginUrl(<<"api">>, "datos", "js")
CdnHost == <<"cdn", "example">>
CdnJsUrl == Url("https:", CdnHost, <<"lib">>, "widget", "js")
CdnFeedUrl == Url("https:", CdnHost, <<"data">>, "feed", "json")
CdnRootUrl == Url("https:", CdnHost, <<>>, "", "")
FontsUrl == Url("https:", <<"fonts", "googleapis", "com">>, <<"css">>, "font", "css")
ExtensionUrl == Url("chrome-extension:", <<"abcdef">>, <<>>, "content", "js")
MozExtensionUrl == Url("moz-extension:", <<"abcdef">>, <<>>, "content", "js")

Urls ==
    {InicioUrl, LogoUrl, ApiJsUrl, CdnJsUrl, CdnFeedUrl, CdnRootUrl, FontsUrl,
     ExtensionUrl, MozExtensionUrl}

Get(url, accept) == [url |-> url, accept |-> accept, method |-> "GET"]

\* the fetch events the pages raise: navigations (with and without image
\* types in the accept header), images, scripts and data requests
Requests ==
    { Get(InicioUrl, {Html}), Get(InicioUrl, {Html, Webp}),
      Get(LogoUrl, {Webp}), Get(LogoUrl, {}),
      Get(ApiJsUrl, {AnyType}),
      Get(CdnJsUrl, {AnyType}), Get(CdnFeedUrl, {}),
      Get(CdnRootUrl, {Html}),
      Get(FontsUrl, {Webp}),
      Get(ExtensionUrl, {AnyType}), Get(MozExtensionUrl, {Webp}),
      [url |-> ApiJsUrl, accept |-> {AnyType}, method |-> "POST"] }

\* the URL a static asset path is fetched from at install (relative to the worker)
AssetUrl(path) == SameOriginUrl(path.dirs, path.file, path.ext)

\* new Request('/Inicio.html')
InicioRequestUrl == AssetUrl(STATIC_ASSETS[2])

(***************************************************************************)
(* State.                                                                  *)
(***************************************************************************)
VARIABLES
    lifecycle,      \* "parsed", "installed" (waiting), "active"
    installPromise, \* how the promise given to the install event's waitUntil settled
    addAllDone,     \* whether cache.addAll(STATIC_ASSETS) succeeded at install
    skipWaiting,    \* whether self.skipWaiting() was called
    claimed,        \* whether self.clients.claim() was called
    cacheNames,     \* the names CacheStorage (caches.keys()) holds
    staticStore,    \* entries of the cache named STATIC_CACHE
    dynamicStore,   \* entries of the cache named DYNAMIC_CACHE
    handlers,       \* the fetch events being handled, by slot
    last,           \* the fetch event whose handling ended most recently
    refreshes,      \* detached updateCacheInBackground calls awaiting their fetch
    refreshLog,     \* the background update that settled most recently
    puts,           \* cache.put calls issued and not yet settled
    netSeq,         \* number of network fetches issued so far
    events,         \* number of fetch events delivered so far
    cleanup,        \* the cleanupCaches pass: its position and what it read
    host,           \* the lifecycle, message, push and click events delivered
    modal,          \* the page's ModalManager and the modals it shows
    search,         \* the page's SearchManager, its input and its items
    copy,           \* a copy button and the copies and reset timers under way
    filter,         \* the category filter: its elements and its show timers
    debounce        \* a debounced function: its timer, its calls and its runs

vars ==
    <<lifecycle, installPromise, addAllDone, skipWaiting, claimed, cacheNames,
      staticStore, dynamicStore, handlers, last, refreshes, refreshLog, puts,
      netSeq, events, cleanup, host, modal, search, copy, filter, debounce>>

lifecycleVars == <<lifecycle, installPromise, addAllDone, skipWaiting, claimed, host>>

\* the state of the pages' scripts, which no step of the worker changes
uiVars == <<modal, search, copy, filter, debounce>>

\* the state of the worker, which no step of the pages' scripts changes
workerVars ==
    <<lifecycle, installPromise, addAllDone, skipWaiting, claimed, cacheNames,
      staticStore, dynamicStore, handlers, last, refreshes, refreshLog, puts,
      netSeq, events, cleanup, host>>

\* what no step of a fetch handling changes
fixedVars == <<lifecycleVars, refreshLog, cleanup, uiVars>>

Slots == 1..MaxHandlers

\* cache names left by an older version of the application and by another one
OldStatic == <<"tumatch-protocolo-", "v0.9.0", "-static">>
OldDynamic == <<"tumatch-protocolo-", "v0.9.0", "-dynamic">>
OtherAppCache == <<"otra-app-", "v3", "-cache">>

NoRequest == [url |-> InicioUrl, accept |-> {}, method |-> "NONE"]

\* a slot in which no fetch event is being handled
IdleHandler ==
    [pc |-> "idle", request |-> NoRequest, strategy |-> "none", ctx |-> "none",
     seq |-> 0, netResponse |-> NoResponse, found |-> NoResponse,
     outcome |-> "none", response |-> NoResponse,
     matches |-> 0, fetches |-> 0, refreshSeq |-> 0, fallback |-> FALSE]

\* no cleanupCaches pass has run yet
IdleCleanup ==
    [pc |-> "idle", oldRequests |-> <<>>, read |-> FALSE, before |-> <<>>,
     deleted |-> 0, passes |-> 0]

\* the answers one delivery of install and of activate got from the cache
\* storage and the network; seq names the bodies the asset fetches returned
NoInstall == [openOk |-> FALSE, failed |-> FALSE, seq |-> 0]
NoActivate == [keysOk |-> FALSE, failing |-> {}]

\* nothing was delivered yet.  events counts the deliveries that follow the
\* worker's first install and first activate
IdleHost ==
    [events |-> 0, kind |-> "none", data |-> "none", skipRequested |-> FALSE,
     installs |-> 0, install |-> NoInstall, activates |-> 0, activate |-> NoActivate,
     shown |-> FALSE, windows |-> 0]

\* the ids of the modals of the page, and the value of activeModal when none is active
ModalIds == {"modalGeneral", "modalWhatsapp"}
NoModal == "null"

\* new ModalManager(): no modal active or displayed, the backdrop created
\* and hidden; the session history holds the entry of the page, whose state
\* names no modal.  timers: the pending 300 ms timers of closeModal, in the
\* order they were set; back: the history traversals asked for and not yet
\* performed; opened: the modal of the last openModal call when no closeModal
\* call followed it; calls: the number of calls the user has caused
NewModalManager ==
    [activeModal |-> NoModal, modalStack |-> <<>>,
     display |-> [m \in ModalIds |-> "none"],
     show |-> [m \in ModalIds |-> FALSE],
     backdrop |-> FALSE,
     timers |-> <<>>,
     history |-> <<NoModal>>, back |-> 0,
     opened |-> NoModal, calls |-> 0]

\* strings of the page are sequences of characters
Space == " "

\* the cards SearchManager.collectItems finds under the results container
\* ([data-searchable]): title, description, data-category, data-keywords
SearchCards ==
    << [title |-> <<"A", "b">>, description |-> <<"c">>,
        category |-> <<"x">>, keywords |-> <<>>],
       [title |-> <<"b", "a">>, description |-> <<>>,
        category |-> <<"y">>, keywords |-> <<"K">>],
       [title |-> <<"c">>, description |-> <<"a", "b">>,
        category |-> <<"x">>, keywords |-> <<"k">>] >>

CardIds == 1..Len(SearchCards)

\* new SearchManager(...): the input is empty, currentQuery is '',
\* filteredItems is [] and every card is displayed.  pending: an input event
\* whose debounced handleSearch has not run yet; handled: handleSearch or
\* clearSearch has run; autoClick: the card the last Enter key clicked and
\* the cards displayed at that moment
NewSearchManager ==
    [value |-> <<>>, currentQuery |-> <<>>, filteredItems |-> <<>>,
     displayed |-> CardIds, noResults |-> FALSE, pending |-> FALSE,
     handled |-> FALSE,
     autoClick |-> [card |-> 0, displayed |-> {}], calls |-> 0]

\* a copy button as the page shows it: its content, title and class before
\* any click.  copies: the copyToClipboard calls not settled yet; timers: the
\* pending 2000 ms reset timers, in the order they were set
NewCopyButton ==
    [innerHTML |-> "Copiar", title |-> "Copiar texto", copied |-> FALSE,
     copies |-> <<>>, timers |-> <<>>, clicks |-> 0]

\* the elements with a data-category attribute, in document order: the
\* filter buttons of two categories (the button 'all' has none), then the cards
FilterElements ==
    << [kind |-> "button", category |-> "ventas"],
       [kind |-> "button", category |-> "arriendos"],
       [kind |-> "card", category |-> "ventas"],
       [kind |-> "card", category |-> "arriendos"],
       [kind |-> "card", category |-> "ventas"] >>

ElementIds == 1..Len(FilterElements)

\* the page before any filter click: every element displayed.  clicked: the
\* category of the last click; timers: the pending show timers, each with
\* the time left before it fires, in units of 50 ms
NewFilter ==
    [displayed |-> ElementIds, clicked |-> "none", timers |-> {}, clicks |-> 0]

\* debounce(func, wait) with immediate unset: timeout is not set (0; a timer
\* id otherwise) and no timer is pending.  timers: the pending timers, each
\* with its id, the time left before it fires and the arguments its closure
\* holds; now: the time; calls and runs: the times and arguments of the
\* calls of the wrapper and of the runs of func
NewDebounce ==
    [timeout |-> 0, timers |-> {}, now |-> 0, calls |-> <<>>, runs |-> <<>>]

\* the pages' scripts after DOMContentLoaded
UiInit ==
    /\ modal = NewModalManager
    /\ search = NewSearchManager
    /\ copy = NewCopyButton
    /\ filter = NewFilter
    /\ debounce = NewDebounce

\* no background update has settled yet
NoRefresh == [key |-> InicioUrl, seq |-> 0, outcome |-> "none"]

Init ==
    /\ lifecycle = "parsed"
    /\ installPromise = "pending"
    /\ addAllDone = FALSE
    /\ skipWaiting = FALSE
    /\ claimed = FALSE
    /\ cacheNames = {OldStatic, OldDynamic, OtherAppCache}
    /\ staticStore = <<>>
    /\ dynamicStore = <<>>
    /\ handlers = [i \in Slots |-> IdleHandler]
    /\ last = IdleHandler
    /\ refreshes = {}
    /\ refreshLog = NoRefresh
    /\ puts = {}
    /\ netSeq = 0
    /\ events = 0
    /\ cleanup = IdleCleanup
    /\ host = IdleHost
    /\ UiInit

(***************************************************************************)
(* Install and activate.                                                   *)
(***************************************************************************)
\* AddAll that adds the entries without replacing those of the same key
AddAllAppending(store, failed, seq) ==
    IF failed
    THEN store
    ELSE LET put[i \in 0..Len(STATIC_ASSETS)] ==
                 IF i = 0 THEN store
                 ELSE Append(put[i - 1],
                             [key |-> AssetUrl(STATIC_ASSETS[i]),
                              response |-> NetworkResponse(200, seq)])
         IN  put[Len(STATIC_ASSETS)]

\* cache.addAll(STATIC_ASSETS): every asset is fetched and, only when all
\* responses are ok, all are stored; otherwise the call rejects and stores nothing
AddAll(store, failed, seq) ==
    IF failed
    THEN store
    ELSE LET put[i \in 0..Len(STATIC_ASSETS)] ==
                 IF i = 0 THEN store
                 ELSE Put(put[i - 1], AssetUrl(STATIC_ASSETS[i]),
                          NetworkResponse(200, seq))
         IN  put[Len(STATIC_ASSETS)]

\* the promise the install listener hands to event.waitUntil: the async
\* function catches every error of its body and only logs it
InstallWaitUntil(failed) == "resolved"

\* what one run of the install listener does.  openOk: caches.open succeeds;
\* bad: the index of an asset whose fetch fails or is not ok (0: none); seq:
\* the bodies the asset fetches return; again: 1 when the event is delivered
\* to a worker that has handled it before, else 0
InstallHandler(openOk, bad, seq, again) ==
    LET failed == ~openOk \/ bad # 0
    IN  /\ cacheNames' = IF openOk THEN cacheNames \cup {STATIC_CACHE} ELSE cacheNames
        /\ staticStore' = AddAll(staticStore, failed, seq)
        /\ addAllDone' = (addAllDone \/ ~failed)
        /\ skipWaiting' = (skipWaiting \/ ~failed)
        /\ installPromise' = InstallWaitUntil(failed)
        /\ host' = [host EXCEPT !.events = @ + again,
                                !.kind = "install",
                                !.data = "none",
                                !.installs = @ + 1,
                                !.install = [openOk |-> openOk, failed |-> failed,
                                             seq |-> IF failed THEN 0 ELSE seq]]

\* install listener, at the worker's installation
Install(openOk, bad) ==
    LET failed == ~openOk \/ bad # 0
        promise == InstallWaitUntil(failed)
    IN  /\ lifecycle = "parsed"
        /\ InstallHandler(openOk, bad, netSeq + 1, 0)
        /\ netSeq' = IF openOk THEN netSeq + 1 ELSE netSeq
        \* a rejected promise fails the install: the host discards the worker
        \* and installs it again later
        /\ lifecycle' = IF promise = "resolved" THEN "installed" ELSE "parsed"
        /\ UNCHANGED <<uiVars, claimed, dynamicStore, handlers, last, refreshes, refreshLog, puts,
                       events, cleanup>>

\* IsStale without the test of the application prefix
IsStaleAnyPrefix(name) ==
    /\ name # STATIC_CACHE
    /\ name # DYNAMIC_CACHE

\* name.startsWith('tumatch-protocolo-') && name !== STATIC_CACHE && name !== DYNAMIC_CACHE
IsStale(name) ==
    /\ name[1] = CACHE_NAME[1]
    /\ name # STATIC_CACHE
    /\ name # DYNAMIC_CACHE

\* what one run of the activate listener does.  keysOk: caches.keys succeeds;
\* failing: the stale caches whose caches.delete rejects; again: as for install
ActivateHandler(keysOk, failing, again) ==
    LET stale == {name \in cacheNames : IsStale(name)}
    IN  /\ failing \subseteq stale
        /\ cacheNames' = IF keysOk THEN cacheNames \ (stale \ failing) ELSE cacheNames
        /\ claimed' = (claimed \/ (keysOk /\ failing = {}))
        /\ host' = [host EXCEPT !.events = @ + again,
                                !.kind = "activate",
                                !.data = "none",
                                !.activates = @ + 1,
                                !.activate = [keysOk |-> keysOk,
                                              failing |-> IF keysOk THEN failing ELSE {}]]

\* activate listener, at the worker's activation
Activate(keysOk, failing) ==
    /\ lifecycle = "installed"
    /\ ActivateHandler(keysOk, failing, 0)
    /\ lifecycle' = "active"
    /\ UNCHANGED <<uiVars, installPromise, addAllDone, skipWaiting, staticStore,
                   dynamicStore, handlers, last, refreshes, refreshLog, puts, netSeq,
                   events, cleanup>>

(***************************************************************************)
(* The fetch listener and handleFetch.                                     *)
(***************************************************************************)
\* Intercepts without the test of the request method
InterceptsAnyMethod(request) == request.url.scheme # "chrome-extension:"

\* fetch listener: non-GET requests and chrome-extension: URLs return
\* before event.respondWith
Intercepts(request) ==
    /\ request.method = "GET"
    /\ request.url.scheme # "chrome-extension:"

\* Classify that sends every request to networkFirst
ClassifyAllNetworkFirst(url) == "networkFirst"

\* Classify without the test of the path against STATIC_ASSETS
ClassifyWithoutAssetList(url) ==
    IF MatchesNetworkFirst(url) THEN "networkFirst"
    ELSE IF Origin(url) = LocationOrigin THEN "cacheFirst"
    ELSE "networkFirst"

\* Classify with the same-origin test tried before the network-first patterns
ClassifyOriginFirst(url) ==
    IF IsStaticAssetPath(url) \/ Origin(url) = LocationOrigin THEN "cacheFirst"
    ELSE "networkFirst"

\* handleFetch: the strategy chosen for a URL, first match wins
Classify(url) ==
    IF MatchesNetworkFirst(url) THEN "networkFirst"
    ELSE IF IsStaticAssetPath(url) \/ Origin(url) = LocationOrigin THEN "cacheFirst"
    ELSE "networkFirst"

\* shouldCache without the network-first exclusion
shouldCacheByExtensionOnly(request) == MatchesDynamicAsset(request.url)

\* shouldCache(request)
shouldCache(request) ==
    IF MatchesNetworkFirst(request.url) THEN FALSE
    ELSE MatchesDynamicAsset(request.url)

\* the handling is over: its local variables are gone
Finish(h) ==
    [h EXCEPT !.pc = "done", !.ctx = "none", !.seq = 0]

\* the promise given to respondWith resolves with response r
Respond(h, r) == [Finish(h) EXCEPT !.outcome = "responded", !.response = r]

\* the promise given to respondWith rejects
Reject(h) == [Finish(h) EXCEPT !.outcome = "rejected"]

\* FallbackImageBranch that looks the request up in the caches whatever
\* the request accepts
FallbackImageBranchAlwaysLooksUp(h) ==
    [h EXCEPT !.pc = "gcr_static", !.ctx = "fallbackImage"]

\* getOfflineFallback after the HTML branch: the image branch, then the
\* generic offline response
FallbackImageBranch(h) ==
    IF AcceptsImage(h.request)
    THEN [h EXCEPT !.pc = "gcr_static", !.ctx = "fallbackImage"]
    ELSE Respond(h, GenericOffline)

\* getOfflineFallback(request), up to its first await
getOfflineFallback(h) ==
    LET g == [h EXCEPT !.fallback = TRUE]
    IN  IF AcceptsHtml(g.request)
        THEN [g EXCEPT !.pc = "gcr_static", !.ctx = "fallbackHtml"]
        ELSE FallbackImageBranch(g)

\* the request getCachedResponse was called with
LookupKey(h) == IF h.ctx = "fallbackHtml" THEN InicioRequestUrl ELSE h.request.url

\* getCachedResponse returned `cached` to its caller, which goes on
GcrReturn(h, cached) ==
    IF cached # NoResponse THEN Respond(h, cached)
    ELSE IF h.ctx = "networkFirst" THEN getOfflineFallback(h)    \* throw error
    ELSE IF h.ctx = "fallbackHtml" THEN FallbackImageBranch(h)
    ELSE Respond(h, SvgPlaceholder)

\* getCachedResponse threw (a cache-storage operation rejected): inside
\* networkFirst the error reaches the catch of handleFetch; inside
\* getOfflineFallback nothing catches it
GcrThrow(h) ==
    IF h.ctx = "networkFirst" THEN getOfflineFallback(h) ELSE Reject(h)

\* cacheFirstPuts that writes nothing back
cacheFirstPutsNothing(key, r) == {}

\* cacheFirstPuts without the response.ok test
cacheFirstPutsAnyStatus(key, r) ==
    {[cache |-> "static", key |-> key, response |-> r, by |-> "cacheFirst"]}

\* cacheFirst after a miss: the puts it issues for network response r
cacheFirstPuts(key, r) ==
    IF Ok(r)
    THEN {[cache |-> "static", key |-> key, response |-> r, by |-> "cacheFirst"]}
    ELSE {}

\* networkFirstThrows that takes a response that is not ok for a network error
networkFirstThrowsOnNotOk(outcome, r) == outcome = "error" \/ ~Ok(r)

\* networkFirst: whether its await fetch(request) ends in the catch block;
\* fetch rejects on a network error only, a 404 or 500 resolves
networkFirstThrows(outcome, r) == outcome = "error"

\* networkFirst after a fetch that resolved with r: whether it caches r
networkFirstCaches(request, r) == Ok(r) /\ shouldCache(request)

\* updateCacheInBackground without the response.ok test
updateCacheInBackgroundAnyStatus(key, r) ==
    {[cache |-> "static", key |-> key, response |-> r, by |-> "refresh"]}

\* updateCacheInBackground: the puts it issues for network response r
updateCacheInBackground(key, r) ==
    IF Ok(r)
    THEN {[cache |-> "static", key |-> key, response |-> r, by |-> "refresh"]}
    ELSE {}

\* networkFirstPuts writing into the static cache
networkFirstPutsStatic(key, r) ==
    {[cache |-> "static", key |-> key, response |-> r, by |-> "networkFirst"]}

\* networkFirst: the put it issues once the dynamic cache is open
networkFirstPuts(key, r) ==
    {[cache |-> "dynamic", key |-> key, response |-> r, by |-> "networkFirst"]}

\* cacheFirstHit that returns cached without starting the background update
cacheFirstHitNoRefresh(h, cached, seq) == Respond(h, cached)

\* cacheFirstHit that goes on to the network fetch and returns its response
cacheFirstHitAwaitsFetch(h, cached, seq) ==
    [h EXCEPT !.pc = "cf_fetch", !.seq = seq, !.fetches = 1]

\* cacheFirst on a hit: updateCacheInBackground(request, cache) issues fetch
\* number seq and is left running, and cached is returned
cacheFirstHit(h, cached, seq) ==
    Respond([h EXCEPT !.refreshSeq = seq], cached)

\* cacheFirst on a miss, up to await fetch(request), which is fetch number seq
cacheFirstMiss(h, seq) ==
    [h EXCEPT !.pc = "cf_fetch", !.seq = seq, !.fetches = 1]

\* what the network does with a fetch
NetOutcomes == {"ok", "notOk", "error"}

NetResult(outcome, seq) ==
    IF outcome = "ok" THEN NetworkResponse(200, seq) ELSE NetworkResponse(404, seq)

\* what cache storage does with caches.open followed by cache.match
LookupOutcomes == {"ok", "openFails", "matchFails"}

\* caches.open(name) creates the cache when it resolves
Opened(names, name, outcome) ==
    IF outcome = "openFails" THEN names ELSE names \cup {name}

\* the lowest slot that handles no event
FreeSlot(i) ==
    /\ handlers[i].pc = "idle"
    /\ \A j \in Slots : j < i => handlers[j].pc # "idle"

\* the handling in slot i goes on as h; one that is over leaves its slot and
\* is kept as `last` until the next fetch event is intercepted
Step(i, h) ==
    IF h.pc = "done"
    THEN /\ handlers' = [handlers EXCEPT ![i] = IdleHandler]
         /\ last' = h
    ELSE /\ handlers' = [handlers EXCEPT ![i] = h]
         /\ last' = IF handlers[i].pc = "idle" THEN IdleHandler ELSE last

\* fetch listener and handleFetch up to the first await
FetchEvent(i, request) ==
    /\ lifecycle = "active"
    /\ events < MaxEvents
    /\ FreeSlot(i)
    /\ events' = events + 1
    /\ LET h == [IdleHandler EXCEPT !.request = request]
       IN  IF ~Intercepts(request)
           THEN /\ Step(i, [h EXCEPT !.pc = "done", !.outcome = "ignored"])
                /\ netSeq' = netSeq
           ELSE IF Classify(request.url) = "networkFirst"
           THEN /\ Step(i, [h EXCEPT !.pc = "nf_fetch", !.strategy = "networkFirst",
                                              !.seq = netSeq + 1, !.fetches = 1])
                /\ netSeq' = netSeq + 1
           ELSE /\ Step(i, [h EXCEPT !.pc = "cf_lookup", !.strategy = "cacheFirst"])
                /\ netSeq' = netSeq
    /\ UNCHANGED <<fixedVars, cacheNames, staticStore, dynamicStore, refreshes, puts>>

\* cacheFirst: await caches.open(STATIC_CACHE), await cache.match(request),
\* then the hit branch (start the background update, return cached) or the
\* miss branch up to await fetch
CfLookup(i, outcome) ==
    LET h == handlers[i]
        cached == Match(staticStore, h.request.url)
        m == [h EXCEPT !.matches = @ + 1, !.found = cached]
    IN  /\ h.pc = "cf_lookup"
        /\ cacheNames' = Opened(cacheNames, STATIC_CACHE, outcome)
        /\ IF outcome # "ok"
           THEN /\ Step(i, getOfflineFallback(h))
                /\ UNCHANGED <<refreshes, netSeq>>
           ELSE LET n == IF cached # NoResponse
                         THEN cacheFirstHit(m, cached, netSeq + 1)
                         ELSE cacheFirstMiss(m, netSeq + 1)
                IN  /\ Step(i, n)
                    /\ refreshes' = IF n.refreshSeq # 0
                                    THEN refreshes \cup {[key |-> h.request.url,
                                                          seq |-> n.refreshSeq]}
                                    ELSE refreshes
                    /\ netSeq' = IF n.refreshSeq # 0 \/ n.fetches # 0
                                 THEN netSeq + 1 ELSE netSeq
        /\ UNCHANGED <<fixedVars, staticStore, dynamicStore, puts, events>>

\* cacheFirst: await fetch(request) settles
CfFetchSettle(i, outcome) ==
    LET h == handlers[i]
        r == NetResult(outcome, h.seq)
    IN  /\ h.pc = "cf_fetch"
        /\ IF outcome = "error"
           THEN /\ Step(i, getOfflineFallback(h))
                /\ UNCHANGED puts
           ELSE /\ puts' = puts \cup cacheFirstPuts(h.request.url, r)
                /\ Step(i, Respond([h EXCEPT !.netResponse = r], r))
        /\ UNCHANGED <<fixedVars, cacheNames, staticStore, dynamicStore, refreshes,
                       netSeq, events>>

\* networkFirst: await fetch(request) settles
NfFetchSettle(i, outcome) ==
    LET h == handlers[i]
        r == NetResult(outcome, h.seq)
        \* what the network answered, if it answered
        n == IF outcome = "error" THEN h ELSE [h EXCEPT !.netResponse = r]
    IN  /\ h.pc = "nf_fetch"
        /\ Step(i, IF networkFirstThrows(outcome, r)
               THEN [n EXCEPT !.pc = "gcr_static", !.ctx = "networkFirst"]
               ELSE IF networkFirstCaches(h.request, r)
               THEN [n EXCEPT !.pc = "nf_open"]
               ELSE Respond(n, r))
        /\ UNCHANGED <<fixedVars, cacheNames, staticStore, dynamicStore, refreshes,
                       puts, netSeq, events>>

\* networkFirst: await caches.open(DYNAMIC_CACHE), then cache.put and return;
\* a rejection is caught by the catch of networkFirst like a network error
NfOpen(i, ok) ==
    LET h == handlers[i]
    IN  /\ h.pc = "nf_open"
        /\ IF ok
           THEN /\ cacheNames' = cacheNames \cup {DYNAMIC_CACHE}
                /\ puts' = puts \cup networkFirstPuts(h.request.url, h.netResponse)
                /\ Step(i, Respond(h, h.netResponse))
           ELSE /\ Step(i, [h EXCEPT !.pc = "gcr_static", !.ctx = "networkFirst"])
                /\ UNCHANGED <<cacheNames, puts>>
        /\ UNCHANGED <<fixedVars, staticStore, dynamicStore, refreshes, netSeq, events>>

\* getCachedResponse: await caches.open(STATIC_CACHE), await cache.match(request)
GcrStatic(i, outcome) ==
    LET h == handlers[i]
        cached == Match(staticStore, LookupKey(h))
        m == [h EXCEPT !.matches = @ + 1]
    IN  /\ h.pc = "gcr_static"
        /\ cacheNames' = Opened(cacheNames, STATIC_CACHE, outcome)
        /\ Step(i, IF outcome # "ok" THEN GcrThrow(h)
               ELSE IF cached # NoResponse THEN GcrReturn(m, cached)
               ELSE [m EXCEPT !.pc = "gcr_dynamic"])
        /\ UNCHANGED <<fixedVars, staticStore, dynamicStore, refreshes,
                       puts, netSeq, events>>

\* getCachedResponse: await caches.open(DYNAMIC_CACHE), await cache.match(request)
GcrDynamic(i, outcome) ==
    LET h == handlers[i]
        cached == Match(dynamicStore, LookupKey(h))
        m == [h EXCEPT !.matches = @ + 1]
    IN  /\ h.pc = "gcr_dynamic"
        /\ cacheNames' = Opened(cacheNames, DYNAMIC_CACHE, outcome)
        /\ Step(i, IF outcome # "ok" THEN GcrThrow(h) ELSE GcrReturn(m, cached))
        /\ UNCHANGED <<fixedVars, staticStore, dynamicStore, refreshes,
                       puts, netSeq, events>>

\* updateCacheInBackground: its await fetch(request) settles; an error is
\* caught and logged
RefreshSettle(t, outcome) ==
    /\ t \in refreshes
    /\ refreshes' = refreshes \ {t}
    /\ refreshLog' = [key |-> t.key, seq |-> t.seq, outcome |-> outcome]
    /\ puts' = IF outcome = "error" THEN puts
               ELSE puts \cup updateCacheInBackground(t.key, NetResult(outcome, t.seq))
    /\ UNCHANGED <<uiVars, lifecycleVars, cacheNames, staticStore, dynamicStore, handlers,
                   last, netSeq, events, cleanup>>

\* a cache.put issued without await settles: the entry is written, or the
\* put rejects and nobody sees it (it always rejects for a request whose
\* scheme is not http or https)
PutSettle(p, ok) ==
    /\ p \in puts
    /\ ok => p.key.scheme \in {"http:", "https:"}
    /\ puts' = puts \ {p}
    /\ staticStore' = IF ok /\ p.cache = "static"
                      THEN Put(staticStore, p.key, p.response) ELSE staticStore
    /\ dynamicStore' = IF ok /\ p.cache = "dynamic"
                       THEN Put(dynamicStore, p.key, p.response) ELSE dynamicStore
    /\ UNCHANGED <<fixedVars, cacheNames, handlers, last, refreshes, netSeq, events>>

(***************************************************************************)
(* cleanupCaches, run by setInterval once per day.                         *)
(***************************************************************************)
\* requests.length > 50
MaxDynamicEntries == 50

\* requests.slice(0, 10)
EvictionBatch == 10

\* OldRequests taking the entries inserted last
OldRequestsNewest(requests) ==
    SubSeq(requests, Len(requests) - EvictionBatch + 1, Len(requests))

\* requests.slice(0, 10): the first entries in the order of cache.keys(),
\* which is the order of insertion
OldRequests(requests) ==
    IF Len(requests) < EvictionBatch THEN requests
    ELSE SubSeq(requests, 1, EvictionBatch)

\* IsTooLarge that already holds at the limit
IsTooLargeAtLimit(requests) == Len(requests) >= MaxDynamicEntries

\* if (requests.length > 50)
IsTooLarge(requests) == Len(requests) > MaxDynamicEntries

\* what cache storage does with caches.open followed by cache.keys
KeysOutcomes == {"ok", "openFails", "keysFails"}

\* cleanupCaches up to its last await: caches.open(DYNAMIC_CACHE) and
\* dynamicCache.keys(); over the limit it issues the delete of each of
\* oldRequests.  A rejection ends the pass (nothing catches it).
CleanupKeys(outcome) ==
    LET requests == [i \in 1..Len(dynamicStore) |-> dynamicStore[i].key]
        over == outcome = "ok" /\ IsTooLarge(requests)
    IN  /\ cleanup.pc = "idle"
        /\ cleanup.passes < MaxPasses
        /\ cacheNames' = Opened(cacheNames, DYNAMIC_CACHE, outcome)
        /\ cleanup' = [pc |-> IF over THEN "deleting" ELSE "idle",
                       oldRequests |-> IF over THEN OldRequests(requests) ELSE <<>>,
                       read |-> outcome = "ok",
                       before |-> IF outcome = "ok" THEN dynamicStore ELSE <<>>,
                       deleted |-> 0,
                       passes |-> cleanup.passes + 1]
        /\ UNCHANGED <<uiVars, lifecycleVars, staticStore, dynamicStore, handlers, last,
                       refreshes, refreshLog, puts, netSeq, events>>

\* one dynamicCache.delete(request) of the pass resolves.  The deletes are
\* issued together and concern different keys, so they commute: they are
\* taken in the order of oldRequests, and any other step may come between.
CleanupDelete ==
    LET request == Head(cleanup.oldRequests)
    IN  /\ cleanup.pc = "deleting"
        /\ dynamicStore' = Delete(dynamicStore, request)
        /\ cleanup' = [cleanup EXCEPT
                          !.oldRequests = Tail(@),
                          !.deleted = IF request \in Keys(dynamicStore) THEN @ + 1 ELSE @,
                          !.pc = IF Len(cleanup.oldRequests) = 1 THEN "idle"
                                 ELSE "deleting"]
        /\ UNCHANGED <<uiVars, lifecycleVars, cacheNames, staticStore, handlers, last,
                       refreshes, refreshLog, puts, netSeq, events>>

\* In Spec the cache-storage calls of install and activate succeed; the
\* network may fail any asset of the install batch.
Next ==
    \/ \E bad \in 0..Len(STATIC_ASSETS) : Install(TRUE, bad)
    \/ Activate(TRUE, {})
    \/ \E i \in Slots, request \in Requests : FetchEvent(i, request)
    \/ \E i \in Slots, outcome \in LookupOutcomes : CfLookup(i, outcome)
    \/ \E i \in Slots, outcome \in NetOutcomes : CfFetchSettle(i, outcome)
    \/ \E i \in Slots, outcome \in NetOutcomes : NfFetchSettle(i, outcome)
    \/ \E i \in Slots, ok \in BOOLEAN : NfOpen(i, ok)
    \/ \E i \in Slots, outcome \in LookupOutcomes : GcrStatic(i, outcome)
    \/ \E i \in Slots, outcome \in LookupOutcomes : GcrDynamic(i, outcome)
    \/ \E t \in refreshes, outcome \in NetOutcomes : RefreshSettle(t, outcome)
    \/ \E p \in puts, ok \in BOOLEAN : PutSettle(p, ok)

Spec == Init /\ [][Next]_vars

(***************************************************************************)
(* The cache maintenance.  The dynamic store has been filled up to the     *)
(* limit of cleanupCaches by earlier network-first requests for cacheable  *)
(* cross-origin resources; a few more fetch events and cleanup passes      *)
(* follow.  `events` counts the fetch events delivered from here on.       *)
(***************************************************************************)
MaxCleanupEvents == 1

\* the i-th cacheable cross-origin resource the pages have requested
PhotoUrl(i) == Url("https:", CdnHost, <<"fotos">>, ToString(i), "jpg")

\* the dynamic store after network-first has cached PhotoUrl(1..n) in turn,
\* the fetches numbered from 2 (install issued the first)
Filled(n) == [i \in 1..n |-> [key |-> PhotoUrl(i), response |-> NetworkResponse(200, i + 1)]]

\* a page of another origin whose path is in STATIC_ASSETS
CdnInicioUrl == Url("https:", CdnHost, <<>>, "Inicio", "html")

\* the oldest entry, the entry that survives a pass as the oldest, a
\* resource not requested before, two same-origin resources: one that
\* install has stored and one that it has not, a page of another origin
\* under a path of STATIC_ASSETS and a style sheet of a network-first host
CleanupRequests ==
    { Get(PhotoUrl(1), {AnyType}),
      Get(PhotoUrl(EvictionBatch + 1), {AnyType}),
      Get(PhotoUrl(MaxDynamicEntries + 2), {AnyType}),
      Get(InicioUrl, {}), Get(LogoUrl, {}),
      Get(CdnInicioUrl, {Html}), Get(FontsUrl, {}) }

CleanupInit ==
    /\ lifecycle = "active"
    /\ installPromise = "resolved"
    /\ addAllDone = TRUE
    /\ skipWaiting = TRUE
    /\ claimed = TRUE
    /\ cacheNames = {STATIC_CACHE, DYNAMIC_CACHE, OtherAppCache}
    /\ staticStore = AddAll(<<>>, FALSE, 1)
    /\ \E n \in {MaxDynamicEntries, MaxDynamicEntries + 1} :
           /\ dynamicStore = Filled(n)
           /\ netSeq = n + 1
    /\ handlers = [i \in Slots |-> IdleHandler]
    /\ last = IdleHandler
    /\ refreshes = {}
    /\ refreshLog = NoRefresh
    /\ puts = {}
    /\ events = 0
    /\ cleanup = IdleCleanup
    /\ host = [IdleHost EXCEPT !.kind = "activate",
                               !.installs = 1,
                               !.install = [openOk |-> TRUE, failed |-> FALSE, seq |-> 1],
                               !.activates = 1,
                               !.activate = [keysOk |-> TRUE, failing |-> {}]]
    /\ UiInit

CleanupNext ==
    \/ \E outcome \in KeysOutcomes : CleanupKeys(outcome)
    \/ CleanupDelete
    \/ /\ events < MaxCleanupEvents
       /\ \E i \in Slots, request \in CleanupRequests : FetchEvent(i, request)
    \/ \E i \in Slots, outcome \in LookupOutcomes : CfLookup(i, outcome)
    \/ \E i \in Slots, outcome \in NetOutcomes : CfFetchSettle(i, outcome)
    \/ \E t \in refreshes, outcome \in NetOutcomes : RefreshSettle(t, outcome)
    \/ \E i \in Slots, outcome \in NetOutcomes : NfFetchSettle(i, outcome)
    \/ \E i \in Slots, ok \in BOOLEAN : NfOpen(i, ok)
    \/ \E i \in Slots, outcome \in LookupOutcomes : GcrStatic(i, outcome)
    \/ \E i \in Slots, outcome \in LookupOutcomes : GcrDynamic(i, outcome)
    \/ \E p \in puts, ok \in BOOLEAN : PutSettle(p, ok)

SpecCleanup == CleanupInit /\ [][CleanupNext]_vars

(***************************************************************************)
(* Properties.                                                             *)
(***************************************************************************)
(***************************************************************************)
(* The lifecycle with a failing cache storage: caches.open of install,     *)
(* caches.keys and any caches.delete of activate may reject.  Few fetch    *)
(* events follow the activation.                                           *)
(***************************************************************************)
MaxLifecycleEvents == 1

LifecycleNext ==
    \/ \E openOk \in BOOLEAN, bad \in 0..Len(STATIC_ASSETS) : Install(openOk, bad)
    \/ \E keysOk \in BOOLEAN, failing \in SUBSET cacheNames : Activate(keysOk, failing)
    \/ /\ events < MaxLifecycleEvents
       /\ \E i \in Slots, request \in Requests : FetchEvent(i, request)
    \/ \E i \in Slots, outcome \in LookupOutcomes : CfLookup(i, outcome)
    \/ \E i \in Slots, outcome \in NetOutcomes : CfFetchSettle(i, outcome)
    \/ \E i \in Slots, outcome \in NetOutcomes : NfFetchSettle(i, outcome)
    \/ \E i \in Slots, ok \in BOOLEAN : NfOpen(i, ok)
    \/ \E i \in Slots, outcome \in LookupOutcomes : GcrStatic(i, outcome)
    \/ \E i \in Slots, outcome \in LookupOutcomes : GcrDynamic(i, outcome)
    \/ \E t \in refreshes, outcome \in NetOutcomes : RefreshSettle(t, outcome)
    \/ \E p \in puts, ok \in BOOLEAN : PutSettle(p, ok)

SpecLifecycle == Init /\ [][LifecycleNext]_vars

(***************************************************************************)
(* The events the host delivers besides fetch: install and activate        *)
(* delivered again, message, push and notificationclick.                   *)
(***************************************************************************)
MaxHostEvents == 2

\* what a message event carries: a command of type SKIP_WAITING, a command of
\* another type, data without a type, no data
MessageData == {"SKIP_WAITING", "CLEAR_CACHE", "NO_TYPE", "NO_DATA"}

\* what a push event carries: a JSON payload, a payload that is not JSON, none
PushData == {"json", "text", "none"}

\* the action of a click on the notification push shows: one of its two
\* buttons, or "" for a click on its body
ClickActions == {"open", "close", ""}

\* the install event delivered to a worker that is already installed
InstallAgain(openOk, bad, seq) ==
    /\ lifecycle = "installed"
    /\ host.events < MaxHostEvents
    /\ InstallHandler(openOk, bad, seq, 1)
    /\ netSeq' = IF openOk /\ seq > netSeq THEN seq ELSE netSeq
    /\ UNCHANGED <<uiVars, lifecycle, claimed, dynamicStore, handlers, last, refreshes,
                   refreshLog, puts, events, cleanup>>

\* the activate event delivered to a worker that is already active
ActivateAgain(keysOk, failing) ==
    /\ lifecycle = "active"
    /\ host.events < MaxHostEvents
    /\ ActivateHandler(keysOk, failing, 1)
    /\ UNCHANGED <<uiVars, lifecycle, installPromise, addAllDone, skipWaiting, staticStore,
                   dynamicStore, handlers, last, refreshes, refreshLog, puts, netSeq,
                   events, cleanup>>

\* ForcesActivation for every message that carries data
ForcesActivationAnyData(data) == data # "NO_DATA"

\* event.data && event.data.type === 'SKIP_WAITING'
ForcesActivation(data) == data = "SKIP_WAITING"

\* message listener
Message(data) ==
    /\ lifecycle \in {"installed", "active"}
    /\ host.events < MaxHostEvents
    /\ skipWaiting' = (skipWaiting \/ ForcesActivation(data))
    /\ host' = [host EXCEPT !.events = @ + 1,
                            !.kind = "message",
                            !.data = data,
                            !.skipRequested = @ \/ data = "SKIP_WAITING"]
    /\ UNCHANGED <<uiVars, lifecycle, installPromise, addAllDone, claimed, cacheNames,
                   staticStore, dynamicStore, handlers, last, refreshes, refreshLog,
                   puts, netSeq, events, cleanup>>

\* push listener: returns when the event has no data, throws when
\* event.data.json() does, otherwise shows the notification, which replaces a
\* shown one of the same tag
Push(data) ==
    /\ lifecycle = "active"
    /\ host.events < MaxHostEvents
    /\ host' = [host EXCEPT !.events = @ + 1,
                            !.kind = "push",
                            !.data = data,
                            !.shown = @ \/ data = "json"]
    /\ UNCHANGED <<uiVars, lifecycle, installPromise, addAllDone, skipWaiting, claimed,
                   cacheNames, staticStore, dynamicStore, handlers, last, refreshes,
                   refreshLog, puts, netSeq, events, cleanup>>

\* OpensWindow for the 'open' button only
OpensWindowOnButtonOnly(action) == action = "open"

\* event.action === 'open' || !event.action
OpensWindow(action) == action = "open" \/ action = ""

\* notificationclick listener: event.notification.close(), then
\* clients.openWindow('/') under OpensWindow
NotificationClick(action) ==
    /\ lifecycle = "active"
    /\ host.shown
    /\ host.events < MaxHostEvents
    /\ host' = [host EXCEPT !.events = @ + 1,
                            !.kind = "notificationclick",
                            !.data = action,
                            !.shown = FALSE,
                            !.windows = IF OpensWindow(action) THEN @ + 1 ELSE @]
    /\ UNCHANGED <<uiVars, lifecycle, installPromise, addAllDone, skipWaiting, claimed,
                   cacheNames, staticStore, dynamicStore, handlers, last, refreshes,
                   refreshLog, puts, netSeq, events, cleanup>>

HostNext ==
    \/ \E openOk \in BOOLEAN, bad \in 0..Len(STATIC_ASSETS) : Install(openOk, bad)
    \/ \E keysOk \in BOOLEAN, failing \in SUBSET cacheNames : Activate(keysOk, failing)
    \/ \E openOk \in BOOLEAN, bad \in 0..Len(STATIC_ASSETS), seq \in 1..(netSeq + 1) :
           InstallAgain(openOk, bad, seq)
    \/ \E keysOk \in BOOLEAN, failing \in SUBSET cacheNames :
           ActivateAgain(keysOk, failing)
    \/ \E data \in MessageData : Message(data)
    \/ \E data \in PushData : Push(data)
    \/ \E action \in ClickActions : NotificationClick(action)

SpecHost == Init /\ [][HostNext]_vars

(***************************************************************************)
(* Fetch handling in which every operation the handling awaits settles:    *)
(* the cache lookups, caches.open and the fetch of the response path.  The *)
(* fetch of a background update and the cache.put calls, which nothing     *)
(* awaits, may stay pending for ever.                                      *)
(***************************************************************************)
HandlerStep(i) ==
    \/ \E outcome \in LookupOutcomes : CfLookup(i, outcome)
    \/ \E outcome \in NetOutcomes : CfFetchSettle(i, outcome)
    \/ \E outcome \in NetOutcomes : NfFetchSettle(i, outcome)
    \/ \E ok \in BOOLEAN : NfOpen(i, ok)
    \/ \E outcome \in LookupOutcomes : GcrStatic(i, outcome)
    \/ \E outcome \in LookupOutcomes : GcrDynamic(i, outcome)

SpecFair == Init /\ [][Next]_vars /\ \A i \in Slots : WF_vars(HandlerStep(i))

(***************************************************************************)
(* ModalManager (js/modal.js): openModal, closeModal with its 300 ms       *)
(* timer, and the popstate listener.                                       *)
(***************************************************************************)
MaxModalCalls == 4

Front(s) == SubSeq(s, 1, Len(s) - 1)

modalFrame == <<workerVars, search, copy, filter, debounce>>

\* openModal(modalId) from a click on a [data-modal] button; an id without
\* an element only logs an error
openModal(modalId) ==
    /\ modal.calls < MaxModalCalls
    /\ modal' =
         IF modalId \notin ModalIds
         THEN [modal EXCEPT !.calls = @ + 1]
         ELSE [modal EXCEPT
                 !.modalStack = IF modal.activeModal # NoModal
                                THEN Append(@, modal.activeModal) ELSE @,
                 !.activeModal = modalId,
                 !.backdrop = TRUE,
                 !.show[modalId] = TRUE,
                 !.display[modalId] = "flex",
                 !.history = Append(@, modalId),
                 !.opened = modalId,
                 !.calls = @ + 1]
    /\ UNCHANGED modalFrame

\* the body of closeModal(options) on a manager m: nothing without an active
\* modal; otherwise the modal loses the class show, the timer is set and,
\* when the history state names the modal, history.back() is called
CloseModalBody(m, updateHistory) ==
    IF m.activeModal = NoModal
    THEN m
    ELSE [m EXCEPT
            !.show[m.activeModal] = FALSE,
            !.timers = Append(@, m.activeModal),
            !.back = IF updateHistory /\ m.history[Len(m.history)] = m.activeModal
                     THEN @ + 1 ELSE @]

\* closeModal() from a close button, the Escape key or a click on the backdrop
closeModal ==
    /\ modal.calls < MaxModalCalls
    /\ modal' = [CloseModalBody(modal, TRUE) EXCEPT !.opened = NoModal, !.calls = @ + 1]
    /\ UNCHANGED modalFrame

\* the traversal history.back() asked for takes place and the popstate
\* listener runs: handlePopState closes the active modal when the state of
\* the entry reached names no modal
handlePopState ==
    /\ modal.back > 0
    /\ LET m == [modal EXCEPT !.back = @ - 1,
                              !.history = IF Len(@) > 1 THEN Front(@) ELSE @]
           state == m.history[Len(m.history)]
       IN  modal' =
             IF Len(modal.history) > 1 /\ m.activeModal # NoModal /\ state = NoModal
             THEN [CloseModalBody(m, FALSE) EXCEPT !.opened = NoModal]
             ELSE m
    /\ UNCHANGED modalFrame

\* the oldest timer of closeModal fires: the modal it closed is hidden, then
\* the modal on top of modalStack becomes active or, with an empty stack, no
\* modal is active and the backdrop is hidden
CloseTimer ==
    /\ modal.timers # <<>>
    /\ LET closed == Head(modal.timers)
       IN  modal' =
             IF modal.modalStack # <<>>
             THEN [modal EXCEPT
                     !.timers = Tail(@),
                     !.display[closed] = "none",
                     !.activeModal = modal.modalStack[Len(modal.modalStack)],
                     !.modalStack = Front(@)]
             ELSE [modal EXCEPT
                     !.timers = Tail(@),
                     !.display[closed] = "none",
                     !.activeModal = NoModal,
                     !.backdrop = FALSE]
    /\ UNCHANGED modalFrame

ModalNext ==
    \/ \E modalId \in ModalIds \cup {"modalAusente"} : openModal(modalId)
    \/ closeModal
    \/ handlePopState
    \/ CloseTimer

SpecModal == Init /\ [][ModalNext]_vars

(***************************************************************************)
(* SearchManager (js/search.js).                                           *)
(***************************************************************************)
MaxSearchCalls == 3

\* options.minLength
MinLength == 1

\* String.prototype.toLowerCase, on the letters the page uses
LowerChar(c) ==
    CASE c = "A" -> "a"
      [] c = "B" -> "b"
      [] c = "K" -> "k"
      [] OTHER -> c

ToLowerCase(s) == [i \in 1..Len(s) |-> LowerChar(s[i])]

\* String.prototype.trim
RECURSIVE StringTrim(_)
StringTrim(s) ==
    IF s = <<>> THEN s
    ELSE IF Head(s) = Space THEN StringTrim(Tail(s))
    ELSE IF s[Len(s)] = Space THEN StringTrim(SubSeq(s, 1, Len(s) - 1))
    ELSE s

\* String.prototype.includes
Includes(text, term) ==
    \E i \in 1..(Len(text) + 1) :
        /\ i + Len(term) - 1 <= Len(text)
        /\ SubSeq(text, i, i + Len(term) - 1) = term

\* s.split(' ').filter(term => term.length > 0)
RECURSIVE SplitTerms(_, _)
SplitTerms(s, term) ==
    IF s = <<>>
    THEN IF term = <<>> THEN <<>> ELSE <<term>>
    ELSE IF Head(s) = Space
    THEN IF term = <<>> THEN SplitTerms(Tail(s), <<>>)
         ELSE <<term>> \o SplitTerms(Tail(s), <<>>)
    ELSE SplitTerms(Tail(s), Append(term, Head(s)))

\* extractSearchText(element)
extractSearchText(card) ==
    StringTrim(ToLowerCase(card.title \o <<Space>> \o card.description \o <<Space>>
                           \o card.category \o <<Space>> \o card.keywords))

\* this.items after collectItems()
SearchItems ==
    [i \in CardIds |-> [text |-> extractSearchText(SearchCards[i]),
                        category |-> SearchCards[i].category,
                        keywords |-> SearchCards[i].keywords]]

\* filterItems matching a card when any term is present
filterItemsAnyTerm(query) ==
    LET searchTerms == SplitTerms(ToLowerCase(query), <<>>)
        ids == [i \in CardIds |-> i]
        matches(i) ==
            \E t \in 1..Len(searchTerms) :
                \/ Includes(ToLowerCase(SearchItems[i].text), searchTerms[t])
                \/ Includes(ToLowerCase(SearchItems[i].category), searchTerms[t])
                \/ Includes(ToLowerCase(SearchItems[i].keywords), searchTerms[t])
    IN  SelectSeq(ids, matches)

\* filterItems(query): the items in which every term of the query is present
filterItems(query) ==
    LET searchTerms == SplitTerms(ToLowerCase(query), <<>>)
        ids == [i \in CardIds |-> i]
        matches(i) ==
            \A t \in 1..Len(searchTerms) :
                \/ Includes(ToLowerCase(SearchItems[i].text), searchTerms[t])
                \/ Includes(ToLowerCase(SearchItems[i].category), searchTerms[t])
                \/ Includes(ToLowerCase(SearchItems[i].keywords), searchTerms[t])
    IN  SelectSeq(ids, matches)

\* showAllItems()
showAllItems(s) == [s EXCEPT !.displayed = CardIds, !.noResults = FALSE]

\* renderResults()
renderResults(s) ==
    [s EXCEPT !.displayed = {s.filteredItems[i] : i \in 1..Len(s.filteredItems)},
              !.noResults = (s.filteredItems = <<>>)]

\* handleSearch()
handleSearch(s) ==
    LET query == StringTrim(s.value)
    IN  IF Len(query) < MinLength
        THEN showAllItems([s EXCEPT !.handled = TRUE])
        ELSE renderResults([s EXCEPT !.currentQuery = query,
                                     !.filteredItems = filterItems(query),
                                     !.handled = TRUE])

\* clearSearch(); the focus it gives the input finds the input empty
clearSearch(s) ==
    showAllItems([s EXCEPT !.value = <<>>, !.currentQuery = <<>>, !.handled = TRUE])

\* what the user types into the input and what setQuery is called with
SearchValues ==
    { <<>>, <<Space>>, <<"a">>, <<"A", "b">>, <<"b", Space, "c">>, <<"k">>,
      <<"y", Space>>, <<"z">> }

searchFrame == <<workerVars, modal, copy, filter, debounce>>

\* the user edits the input: the input event starts the debounced handleSearch
SearchInput(value) ==
    /\ search.calls < MaxSearchCalls
    /\ value # search.value
    /\ search' = [search EXCEPT !.value = value, !.pending = TRUE, !.calls = @ + 1]
    /\ UNCHANGED searchFrame

\* the debounced handleSearch runs
SearchDebounced ==
    /\ search.pending
    /\ search' = [handleSearch(search) EXCEPT !.pending = FALSE]
    /\ UNCHANGED searchFrame

\* the input gets the focus
SearchFocus ==
    /\ search.calls < MaxSearchCalls
    /\ search' = [(IF Len(search.value) >= MinLength THEN handleSearch(search) ELSE search)
                    EXCEPT !.calls = @ + 1]
    /\ UNCHANGED searchFrame

\* setQuery(query)
SearchSetQuery(query) ==
    /\ search.calls < MaxSearchCalls
    /\ search' = [handleSearch([search EXCEPT !.value = query]) EXCEPT !.calls = @ + 1]
    /\ UNCHANGED searchFrame

\* the clear button or the Escape key
SearchClear ==
    /\ search.calls < MaxSearchCalls
    /\ search' = [clearSearch(search) EXCEPT !.calls = @ + 1]
    /\ UNCHANGED searchFrame

\* handleKeydown for Enter: clicks the result when filteredItems has one item
SearchEnter ==
    /\ search.calls < MaxSearchCalls
    /\ search' = [search EXCEPT
                    !.autoClick = IF Len(search.filteredItems) = 1
                                  THEN [card |-> search.filteredItems[1],
                                        displayed |-> search.displayed]
                                  ELSE [card |-> 0, displayed |-> {}],
                    !.calls = @ + 1]
    /\ UNCHANGED searchFrame

SearchNext ==
    \/ \E value \in SearchValues : SearchInput(value)
    \/ SearchDebounced
    \/ SearchFocus
    \/ \E query \in SearchValues : SearchSetQuery(query)
    \/ SearchClear
    \/ SearchEnter

SpecSearch == Init /\ [][SearchNext]_vars

(***************************************************************************)
(* The copy buttons (js/modal.js): ModalManager.handleCopy for [data-copy] *)
(* and ScriptModal.copyScript for [data-copy-script].                      *)
(***************************************************************************)
MaxCopyClicks == 4

\* the check mark and the text "Copiado!" in two spans
CopiedHTML == "<span>ok</span><span>Copiado!</span>"
CopiedTitle == "Copiado al portapapeles"

copyFrame == <<workerVars, modal, search, filter, debounce>>

\* a click on the button.  handleCopy reads button.innerHTML and button.title
\* before it awaits copyToClipboard, copyScript reads innerHTML after it
CopyClick(kind) ==
    /\ copy.clicks < MaxCopyClicks
    /\ \A i \in 1..Len(copy.copies) : copy.copies[i].kind = kind
    /\ \A i \in 1..Len(copy.timers) : copy.timers[i].kind = kind
    /\ copy' = [copy EXCEPT
                  !.clicks = @ + 1,
                  !.copies = Append(@, IF kind = "handleCopy"
                                       THEN [kind |-> kind, originalHTML |-> copy.innerHTML,
                                             originalTitle |-> copy.title]
                                       ELSE [kind |-> kind, originalHTML |-> "",
                                             originalTitle |-> ""])]
    /\ UNCHANGED copyFrame

\* copyToClipboard of the i-th pending copy settles.  On success the button
\* shows the copied state and the 2000 ms reset timer is set; on failure
\* only a toast is shown
CopySettle(i, success) ==
    /\ i \in 1..Len(copy.copies)
    /\ LET c == copy.copies[i]
           rest == SubSeq(copy.copies, 1, i - 1) \o SubSeq(copy.copies, i + 1, Len(copy.copies))
           originalHTML == IF c.kind = "handleCopy" THEN c.originalHTML ELSE copy.innerHTML
       IN  copy' =
             IF ~success
             THEN [copy EXCEPT !.copies = rest]
             ELSE [copy EXCEPT
                     !.copies = rest,
                     !.innerHTML = CopiedHTML,
                     !.title = IF c.kind = "handleCopy" THEN CopiedTitle ELSE @,
                     !.copied = TRUE,
                     !.timers = Append(@, [kind |-> c.kind, originalHTML |-> originalHTML,
                                           originalTitle |-> c.originalTitle])]
    /\ UNCHANGED copyFrame

\* the oldest reset timer fires
CopyReset ==
    /\ copy.timers # <<>>
    /\ LET t == Head(copy.timers)
       IN  copy' = [copy EXCEPT
                      !.timers = Tail(@),
                      !.innerHTML = t.originalHTML,
                      !.title = IF t.kind = "handleCopy" THEN t.originalTitle ELSE @,
                      !.copied = FALSE]
    /\ UNCHANGED copyFrame

CopyNext ==
    \/ \E kind \in {"handleCopy", "copyScript"} : CopyClick(kind)
    \/ \E i \in 1..Len(copy.copies), success \in BOOLEAN : CopySettle(i, success)
    \/ CopyReset

SpecCopy == Init /\ [][CopyNext]_vars

(***************************************************************************)
(* The category filter (js/main.js): handleFilterClick and its staggered   *)
(* show timers.  Time advances in steps of 50 ms.                          *)
(***************************************************************************)
MaxFilterClicks == 2

FilterCategories == {"all", "ventas", "arriendos"}

filterFrame == <<workerVars, modal, search, copy, debounce>>

\* category === 'all' || card.dataset.category === category
shouldShow(category, element) ==
    category = "all" \/ FilterElements[element].category = category

\* handleFilterClick(clickedButton) for the button of a category: an
\* element to show gets a timer of index * 50 ms, the others are hidden at once
handleFilterClick(category) ==
    /\ filter.clicks < MaxFilterClicks
    /\ filter' = [filter EXCEPT
                    !.clicks = @ + 1,
                    !.clicked = category,
                    !.displayed = @ \ {e \in ElementIds : ~shouldShow(category, e)},
                    !.timers = @ \cup {[element |-> e, left |-> e - 1] :
                                           e \in {x \in ElementIds : shouldShow(category, x)}}]
    /\ UNCHANGED filterFrame

\* a show timer that is due fires: card.style.display = ''
FilterShow(t) ==
    /\ t \in filter.timers
    /\ t.left = 0
    /\ filter' = [filter EXCEPT !.timers = @ \ {t}, !.displayed = @ \cup {t.element}]
    /\ UNCHANGED filterFrame

\* 50 ms pass with no timer due
FilterTick ==
    /\ filter.timers # {}
    /\ \A t \in filter.timers : t.left > 0
    /\ filter' = [filter EXCEPT !.timers = {[element |-> t.element, left |-> t.left - 1] :
                                                t \in filter.timers}]
    /\ UNCHANGED filterFrame

FilterNext ==
    \/ \E category \in FilterCategories : handleFilterClick(category)
    \/ \E t \in filter.timers : FilterShow(t)
    \/ FilterTick

SpecFilter == Init /\ [][FilterNext]_vars

(***************************************************************************)
(* debounce (js/utils.js) with immediate unset, as SearchManager uses it.  *)
(* Time advances in steps; a timer fires when its time has passed, before  *)
(* anything else that happens at that time.                                *)
(***************************************************************************)
MaxDebounceCalls == 3
MaxDebounceTime == 6

\* wait, in steps of time
Wait == 2

\* the arguments a call is made with
DebounceArgs == {"a", "b"}

debounceFrame == <<workerVars, modal, search, copy, filter>>

\* clearTimeout that cancels nothing
clearTimeoutNothing(timers, id) == timers

\* clearTimeout(timeout): the timer of that id, if pending, is cancelled
clearTimeout(timers, id) == {t \in timers : t.id # id}

\* executedFunction(...args): clearTimeout(timeout); timeout = setTimeout(later, wait)
executedFunction(args) ==
    /\ Len(debounce.calls) < MaxDebounceCalls
    /\ \A t \in debounce.timers : t.left > 0
    /\ LET id == Len(debounce.calls) + 1
       IN  debounce' = [debounce EXCEPT
                          !.timers = clearTimeout(@, debounce.timeout)
                                         \cup {[id |-> id, left |-> Wait, args |-> args]},
                          !.timeout = id,
                          !.calls = Append(@, [time |-> debounce.now, args |-> args])]
    /\ UNCHANGED debounceFrame

\* later(): timeout = null; func.apply(this, args)
later(t) ==
    /\ t \in debounce.timers
    /\ t.left = 0
    /\ debounce' = [debounce EXCEPT
                      !.timers = @ \ {t},
                      !.timeout = 0,
                      !.runs = Append(@, [time |-> debounce.now, args |-> t.args])]
    /\ UNCHANGED debounceFrame

\* a step of time passes with no timer due
DebounceTick ==
    /\ debounce.now < MaxDebounceTime
    /\ \A t \in debounce.timers : t.left > 0
    /\ debounce' = [debounce EXCEPT
                      !.now = @ + 1,
                      !.timers = {[t EXCEPT !.left = @ - 1] : t \in debounce.timers}]
    /\ UNCHANGED debounceFrame

DebounceNext ==
    \/ \E args \in DebounceArgs : executedFunction(args)
    \/ \E t \in debounce.timers : later(t)
    \/ DebounceTick

SpecDebounce == Init /\ [][DebounceNext]_vars

\* the URLs install stores the critical assets under
StaticAssetUrls == {AssetUrl(STATIC_ASSETS[i]) : i \in 1..Len(STATIC_ASSETS)}

\* the fetch events being handled and the one handled last
Handlings == {handlers[i] : i \in Slots} \cup {last}

\* a cacheFirst handling that found its request in the static cache
IsHit(h) == h.strategy = "cacheFirst" /\ h.found # NoResponse

\* C1: handleFetch never rejects: every intercepted GET request ends with a
\* response object (a resource response, the SVG placeholder or the 503
\* text response), whatever fails in the network or in cache storage.
C1_HandleFetchNeverRejects ==
    Intercepts(last.request) =>
        /\ last.outcome = "responded"
        /\ last.response.kind \in {"network", "svg", "text"}

\* C2: install is all-or-nothing: the promise given to waitUntil resolves
\* (install is reported successful) only when the static store holds every
\* asset of STATIC_ASSETS; a failed asset fetch makes it reject.
C2_InstallAllOrNothing ==
    installPromise = "resolved" => StaticAssetUrls \subseteq Keys(staticStore)

\* C3 as stated: after a successful install the key set of the static store
\* is exactly the critical-asset list.
C3_StaticStoreIsExactlyTheAssetList ==
    addAllDone => Keys(staticStore) = StaticAssetUrls

\* C3 amended: after a successful install the static store holds every
\* critical asset, every further key is the URL of a request classified
\* cache-first (listed path or same origin, matching no network-first
\* pattern), a background refresh only rewrites keys already stored and
\* networkFirst writes the dynamic store only.
C3_StaticStoreKeys ==
    addAllDone =>
        /\ StaticAssetUrls \subseteq Keys(staticStore)
        /\ \A k \in Keys(staticStore) \ StaticAssetUrls :
               /\ ~MatchesNetworkFirst(k)
               /\ IsStaticAssetPath(k) \/ Origin(k) = LocationOrigin
        /\ \A p \in puts :
               /\ p.by = "refresh" => p.key \in Keys(staticStore)
               /\ p.by = "networkFirst" => p.cache = "dynamic"

\* C3 witness: after a successful install a cache-first miss has added a
\* key outside the asset list to the static store
C3_Witness == addAllDone /\ LogoUrl \in Keys(staticStore)

\* C4: a request whose URL matches a network-first pattern and whose network
\* fetch completed is answered with the network's response, and no
\* cache.match was called while it was handled.
C4_NetworkFirstPatternNeverReadsCache ==
    \A h \in Handlings :
        ( /\ Intercepts(h.request)
          /\ MatchesNetworkFirst(h.request.url)
          /\ h.netResponse # NoResponse ) =>
            /\ h.pc = "done"
            /\ h.outcome = "responded"
            /\ h.response = h.netResponse
            /\ h.matches = 0

\* C4 witness: the same-origin /api/ request was answered by the network
C4_Witness ==
    /\ last.request = Get(ApiJsUrl, {AnyType})
    /\ last.outcome = "responded"
    /\ last.response.kind = "network"

\* a step of the handling of an intercepted request matching a network-first pattern
StepOfNetworkFirstPattern ==
    \E i \in Slots :
        /\ handlers'[i] # handlers[i] \/ (handlers[i].pc = "idle" /\ last' # last)
        /\ LET request == IF handlers[i].pc # "idle" THEN handlers[i].request
                          ELSE IF handlers'[i].pc # "idle" THEN handlers'[i].request
                          ELSE last'.request
           IN  Intercepts(request) /\ MatchesNetworkFirst(request.url)

\* C5: handling a request that matches a network-first pattern leaves both
\* stores as they were and issues no cache.put, whatever the extension of
\* the URL; no cache.put is ever issued with such a URL as key.
C5_NetworkFirstPatternMutatesNoStore ==
    [][ /\ StepOfNetworkFirstPattern => UNCHANGED <<staticStore, dynamicStore, puts>>
        /\ \A p \in puts' \ puts : ~MatchesNetworkFirst(p.key) ]_vars

\* C5 witness: a network-first-pattern URL with a cacheable extension (.css)
\* was served successfully by the network
C5_Witness ==
    /\ last.request.url = FontsUrl
    /\ last.outcome = "responded"
    /\ Ok(last.response)

\* C6: every entry of the static and of the dynamic store holds an ok
\* response, and so does every cache.put that was issued.
C6_OnlyOkResponsesStored ==
    /\ \A e \in Range(staticStore) \cup Range(dynamicStore) : Ok(e.response)
    /\ \A p \in puts : Ok(p.response)

\* C6 witness: a cacheFirst miss got a non-ok response, returned it and
\* wrote nothing
C6_Witness ==
    /\ last.strategy = "cacheFirst"
    /\ last.outcome = "responded"
    /\ ~Ok(last.response)
    /\ last.request.url \notin Keys(staticStore)
    /\ puts = {}

\* the last handling was a cacheFirst hit on an asset that install stored
HitOnInstalledAsset ==
    /\ addAllDone
    /\ IsHit(last)
    /\ last.request.url \in StaticAssetUrls

\* C7 as stated: an asset stored by install and requested again is answered
\* with the stored response and no network fetch at all is issued for it.
C7_RoundTripWithoutAnyFetch ==
    HitOnInstalledAsset =>
        /\ last.outcome = "responded"
        /\ last.response = last.found
        /\ last.fetches = 0
        /\ last.refreshSeq = 0

\* C7 amended: an asset stored by install and requested again is answered
\* with the stored response without any network fetch on the response path;
\* the one fetch issued for the request is that of the background refresh.
C7_RoundTripWithoutWaitingForNetwork ==
    HitOnInstalledAsset =>
        /\ last.outcome = "responded"
        /\ last.response = last.found
        /\ last.fetches = 0
        /\ last.refreshSeq # 0

\* C7 witness: /Inicio.html, stored by install, was requested and hit
C7_Witness == HitOnInstalledAsset /\ last.request.url = InicioUrl

\* C8: on a cache-first hit the response returned is the entry found at
\* lookup time, it is returned while the background re-fetch is still
\* pending, and the settling of a background re-fetch changes no response.
C8_HitReturnsLookupEntryWithoutWaiting ==
    [][ /\ (last' # last /\ IsHit(last')) =>
               /\ last'.outcome = "responded"
               /\ last'.response = Match(staticStore, last'.request.url)
               /\ [key |-> last'.request.url, seq |-> last'.refreshSeq] \in refreshes'
        /\ refreshLog' # refreshLog => (last' = last /\ handlers' = handlers) ]_vars

\* C8 witness: after the hit was answered its re-fetch succeeded and replaced
\* the entry; the response that was returned is still the one found
C8_Witness ==
    /\ IsHit(last)
    /\ last.response = last.found
    /\ refreshLog.seq = last.refreshSeq
    /\ refreshLog.outcome = "ok"
    /\ Match(staticStore, last.request.url) # last.response

\* C9: a background refresh that fails (network error or non-ok response)
\* leaves the stores as they were, issues no cache.put, changes no handling
\* and its key is still in the static store.
C9_FailedRefreshChangesNothing ==
    [][ (refreshLog' # refreshLog /\ refreshLog'.outcome # "ok") =>
            /\ UNCHANGED <<staticStore, dynamicStore, puts, handlers, last>>
            /\ refreshLog'.key \in Keys(staticStore') ]_vars

\* C9 witness: after a failed refresh of a key, a later request for the key
\* hit the entry install had stored
C9_Witness ==
    /\ refreshLog.outcome \in {"error", "notOk"}
    /\ IsHit(last)
    /\ last.request.url = refreshLog.key
    /\ last.refreshSeq > refreshLog.seq
    /\ last.response = NetworkResponse(200, 1)

\* C10: when the network fetch has failed and the fallback is reached, a
\* request that accepts HTML is answered with the cached /Inicio.html or
\* with the generic 503 text response, never with the SVG placeholder.
C10_HtmlFallbackIsHomeOr503 ==
    ( /\ last.fallback
      /\ last.fetches = 1
      /\ AcceptsHtml(last.request)
      /\ last.outcome = "responded" ) =>
        \/ last.response = GenericOffline
        \/ last.response.kind = "network"

\* C11: when the network fetch has thrown and the fallback is reached, a
\* request that accepts an image type and not HTML is answered with a cached
\* copy of the request (from the static or the dynamic store) or else with
\* the 200 SVG placeholder of type image/svg+xml and Cache-Control no-cache.
C11_ImageFallbackIsCachedCopyOrSvg ==
    ( /\ last.fallback
      /\ last.fetches = 1
      /\ last.netResponse = NoResponse
      /\ AcceptsImage(last.request)
      /\ ~AcceptsHtml(last.request) ) =>
        /\ last.outcome = "responded"
        /\ \/ last.response.kind = "network"
           \/ /\ last.response.kind = "svg"
              /\ last.response.status = 200
              /\ last.response.contentType = "image/svg+xml"
              /\ last.response.cacheControl = "no-cache"

\* C12: for a request that accepts neither HTML nor an image type (a request
\* without accept header included) the fallback returns the 503 text/plain
\* response at once: no fallback of such a request ever waits for a cache
\* lookup or a fetch, and the lookups counted are those made before it.
C12_GenericFallbackDoesNoIO ==
    /\ \A i \in Slots :
           handlers[i].fallback =>
               AcceptsHtml(handlers[i].request) \/ AcceptsImage(handlers[i].request)
    /\ ( /\ last.fallback
         /\ ~AcceptsHtml(last.request)
         /\ ~AcceptsImage(last.request) ) =>
            /\ last.outcome = "responded"
            /\ last.response = GenericOffline
            /\ last.response.status = 503
            /\ last.response.contentType = "text/plain"
            /\ last.fetches <= 1
            /\ last.matches <= (IF last.strategy = "cacheFirst" THEN 1 ELSE 2)

\* C12 witness: a request without accept header got the 503 response after
\* its fetch had thrown
C12_Witness ==
    /\ last.fallback
    /\ last.request.accept = {}
    /\ last.netResponse = NoResponse
    /\ last.fetches = 1
    /\ last.response = GenericOffline

\* the network-first handlings whose fetch resolved with a response that is
\* not ok
NotOkNetworkFirst(h) ==
    /\ h.strategy = "networkFirst"
    /\ h.netResponse # NoResponse
    /\ ~Ok(h.netResponse)

\* C13 as stated: in the network-first strategy a fetch that completes with
\* a non-success status is treated like a network error: the non-success
\* response is not what the page receives.
C13_NotOkTreatedAsNetworkError ==
    NotOkNetworkFirst(last) => last.response # last.netResponse

\* C13 amended: a network-first fetch that resolves with a non-success
\* status is returned to the page as it is, without any cache lookup, any
\* fallback or any cache write; the cache lookup of networkFirst runs only
\* after a thrown fetch or after an ok response whose caches.open rejected.
C13_NotOkReturnedAsIs ==
    /\ NotOkNetworkFirst(last) =>
           /\ last.outcome = "responded"
           /\ last.response = last.netResponse
           /\ last.matches = 0
           /\ ~last.fallback
    /\ \A i \in Slots :
           handlers[i].strategy = "networkFirst" /\ handlers[i].pc # "nf_fetch" =>
               handlers[i].netResponse = NoResponse \/ Ok(handlers[i].netResponse)
    /\ \A p \in puts : p.by = "networkFirst" => Ok(p.response)

\* C13 witness: the page got the 404 of the network although the dynamic
\* store held a copy of the request
C13_Witness ==
    /\ NotOkNetworkFirst(last)
    /\ last.response.status = 404
    /\ Match(dynamicStore, last.request.url) # NoResponse

\* C14: in the network-first strategy, after the fetch has thrown: when the
\* static store has an entry for the request it is returned (whatever the
\* dynamic store holds); otherwise the dynamic store is consulted and its
\* entry, if any, is returned; otherwise the error reaches handleFetch,
\* which goes to the fallback.
C14_NetworkFirstLookupOrder ==
    [][ \A i \in Slots :
          LET h == handlers[i]
              key == h.request.url
              after == IF handlers'[i].pc = "idle" THEN last' ELSE handlers'[i]
          IN  ( /\ h.ctx = "networkFirst"
                /\ h.netResponse = NoResponse
                /\ h.pc \in {"gcr_static", "gcr_dynamic"}
                /\ handlers'[i] # h ) =>
                  IF h.pc = "gcr_static" /\ Match(staticStore, key) # NoResponse
                  THEN /\ after.outcome = "responded"
                       /\ after.response = Match(staticStore, key)
                  ELSE IF h.pc = "gcr_static"
                  THEN after.pc = "gcr_dynamic" /\ after.ctx = "networkFirst"
                  ELSE IF Match(dynamicStore, key) # NoResponse
                  THEN /\ after.outcome = "responded"
                       /\ after.response = Match(dynamicStore, key)
                  ELSE after.fallback ]_vars

\* C15: classification is first match wins: a handled request is served
\* network-first when its full URL matches a network-first pattern, also
\* when it is same-origin or on a static-asset path; otherwise cache-first
\* when its path is in the static-asset list or its origin is the worker's;
\* otherwise network-first.  A cache-first handling starts with the static
\* store lookup and a network-first one with the fetch.
C15_ClassificationFirstMatchWins ==
    \A h \in Handlings :
        LET url == h.request.url
            pattern == \E j \in 1..Len(NETWORK_FIRST_PATTERNS) :
                           PatternTest(NETWORK_FIRST_PATTERNS[j], url)
            listed == Pathname(url) \in Range(STATIC_ASSETS)
            own == Origin(url) = LocationOrigin
        IN  h.request.method = "GET" /\ h.outcome # "ignored" =>
              /\ pattern => h.strategy = "networkFirst"
              /\ (~pattern /\ (listed \/ own)) => h.strategy = "cacheFirst"
              /\ (~pattern /\ ~listed /\ ~own) => h.strategy = "networkFirst"
              /\ h.strategy = "cacheFirst" => h.pc \notin {"nf_fetch", "nf_open"}
              /\ h.strategy = "networkFirst" =>
                     h.fetches = 1 /\ h.pc \notin {"cf_lookup", "cf_fetch"}

\* C15 witness: a same-origin URL under /api/ was served network-first
C15_Witness ==
    /\ last.request.url = ApiJsUrl
    /\ Origin(last.request.url) = LocationOrigin
    /\ last.request.method = "GET"
    /\ last.strategy = "networkFirst"
    /\ last.outcome = "responded"

\* C16: a fetch event whose method is not GET is left alone: the step that
\* delivers it calls no respondWith, issues no fetch and no cache read or
\* write, starts no handling, and both stores stay as they are; no handling
\* of a non-GET request is ever in progress.
C16_NonGetIsIgnored ==
    [][ /\ (events' = events + 1 /\ last'.request.method \notin {"GET", NoRequest.method}) =>
               /\ last'.outcome = "ignored"
               /\ last'.response = NoResponse
               /\ last'.fetches = 0 /\ last'.matches = 0
               /\ handlers' = handlers
               /\ UNCHANGED <<staticStore, dynamicStore, cacheNames, puts, refreshes,
                              netSeq>>
        /\ \A i \in Slots :
               handlers'[i].pc # "idle" => handlers'[i].request.method = "GET" ]_vars

\* C16 witness: a POST was delivered and ignored
C16_Witness ==
    /\ last.request.method = "POST"
    /\ last.outcome = "ignored"
    /\ events > 0

\* C17: a GET request whose URL scheme is not http or https
\* (chrome-extension:, moz-extension:, data:, blob:) is ignored: no
\* respondWith, no fetch, no cache read or write is issued for it.
C17_NonHttpSchemeIsIgnored ==
    /\ ( /\ last.request.method = "GET"
         /\ last.request.url.scheme \notin {"http:", "https:"} ) =>
            /\ last.outcome = "ignored"
            /\ last.fetches = 0
            /\ last.matches = 0
    /\ \A i \in Slots :
           handlers[i].pc # "idle" => handlers[i].request.url.scheme \in {"http:", "https:"}
    /\ \A p \in puts : p.key.scheme \in {"http:", "https:"}

\* the caches of this application, of any version
AppCaches == {name \in cacheNames : name[1] = CACHE_NAME[1]}

Earliest == {cleanup.before[i].key : i \in 1..EvictionBatch}

\* the pass that ran last has read the keys and is over
PassEnded == cleanup.pc = "idle" /\ cleanup.read /\ cleanup.passes > 0

\* C19: a cleanupCaches pass over a dynamic store of more than 50 entries
\* deletes exactly the 10 entries inserted earliest and no others, whatever
\* was read recently; over a store of 50 entries or fewer it deletes nothing.
\* Every step that removes a key from the dynamic store removes one of the 10
\* earliest keys of a store that had more than 50, and a pass that ends has
\* deleted all 10 of them, or none when the store had at most 50.
C19_CleanupDeletesTheTenEarliest ==
    [][ /\ LET removed == Keys(dynamicStore) \ Keys(dynamicStore')
           IN  removed # {} =>
                 /\ Cardinality(removed) = 1
                 /\ Len(cleanup.before) > MaxDynamicEntries
                 /\ removed \subseteq Earliest
        /\ PassEnded' =>
             cleanup'.deleted = (IF Len(cleanup'.before) > MaxDynamicEntries
                                 THEN EvictionBatch ELSE 0) ]_vars

\* C19 witness: a pass over 51 entries has left the 41 inserted last,
\* although the oldest entry had just been served from the store
C19_Witness ==
    /\ PassEnded
    /\ Len(cleanup.before) = MaxDynamicEntries + 1
    /\ Len(dynamicStore) = MaxDynamicEntries + 1 - EvictionBatch
    /\ dynamicStore = SubSeq(cleanup.before, EvictionBatch + 1, Len(cleanup.before))
    /\ last.request.url = cleanup.before[1].key
    /\ last.response = cleanup.before[1].response
    /\ last.matches = 2

\* C20: the stores are bounded in size: over every sequence of fetch events
\* and maintenance passes neither the static nor the dynamic store exceeds a
\* fixed number of entries.  The one bound the code states is the limit of
\* cleanupCaches, which a single write may cross before a pass prunes.
C20_StoresAreBounded ==
    /\ Len(dynamicStore) <= MaxDynamicEntries + 1
    /\ Len(staticStore) <= MaxDynamicEntries + 1

\* C21: a cache-store failure never changes what the page receives: a
\* cache-first handling whose store read fails goes on to the network as on
\* a miss, and a handling whose network fetch succeeded returns that network
\* response also when the store write (open or put) fails.
C21_StoreFailureIsMissOrNoOp ==
    /\ (last.strategy = "cacheFirst" /\ last.outcome # "none") =>
           last.found # NoResponse \/ last.fetches = 1
    /\ (last.strategy \in {"cacheFirst", "networkFirst"} /\ Ok(last.netResponse)) =>
           /\ last.outcome = "responded"
           /\ last.response = last.netResponse

\* the handling that ended last was a cache-first miss answered by the
\* network with an ok response
OkMiss(h) ==
    /\ h.strategy = "cacheFirst"
    /\ h.found = NoResponse
    /\ Ok(h.netResponse)
    /\ h.outcome = "responded"

\* the put cacheFirst issues for the response of handling h
WriteBack(h) ==
    [cache |-> "static", key |-> h.request.url, response |-> h.netResponse,
     by |-> "cacheFirst"]

\* C22 as stated: on a cache-first miss with a successful network fetch the
\* write into the static store has completed when the response is returned:
\* at that moment the static store holds the entry of the request.
C22_WriteBackCompletedOnReturn ==
    [][ (last' # last /\ OkMiss(last')) =>
            Match(staticStore', last'.request.url) = last'.netResponse ]_vars

\* C22 amended: on a cache-first miss with a successful network fetch the
\* write into the static store has been issued, not completed, when the
\* response is returned: the step that returns the network response leaves
\* the static store as it was and the put pending.
C22_WriteBackIssuedOnReturn ==
    [][ (last' # last /\ OkMiss(last')) =>
            /\ last'.response = last'.netResponse
            /\ WriteBack(last') \in puts'
            /\ staticStore' = staticStore ]_vars

\* C22 witness: the page has the response of a miss while the static store
\* has no entry for the request and the put is pending
C22_Witness ==
    /\ OkMiss(last)
    /\ WriteBack(last) \in puts
    /\ last.request.url \notin Keys(staticStore)

\* C23: on a network-first success the network response is returned in all
\* cases; the step that returns it hands it to a put on the dynamic store
\* exactly when it is ok, the path ends in a cacheable extension and the URL
\* matches no network-first pattern, and issues no put otherwise; it changes
\* no store itself and network-first never writes the static store.
C23_NetworkFirstCachesCacheableOnly ==
    [][ ( /\ last' # last
          /\ last'.strategy = "networkFirst"
          /\ last'.netResponse # NoResponse ) =>
            LET url == last'.request.url
                r == last'.netResponse
                cacheable == /\ r.status \in 200..299
                             /\ url.ext \in Range(DYNAMIC_ASSETS_PATTERNS)
                             /\ \A j \in 1..Len(NETWORK_FIRST_PATTERNS) :
                                    ~PatternTest(NETWORK_FIRST_PATTERNS[j], url)
            IN  /\ last'.outcome = "responded"
                /\ last'.response = r
                /\ puts' \ puts = IF cacheable
                                  THEN {[cache |-> "dynamic", key |-> url,
                                         response |-> r, by |-> "networkFirst"]}
                                  ELSE {}
                /\ UNCHANGED <<staticStore, dynamicStore>> ]_vars

\* the responses a store holds under a key
Stored(store, key) == {store[i].response : i \in {j \in 1..Len(store) : store[j].key = key}}

\* C24: a cache-first hit returns the body and status of the most recently
\* completed write of its key: the static store holds one entry per key, an
\* entry changes only when a write of its key completes (the addAll of
\* install, the put of a miss write-back or of a background refresh) and is
\* then the response written, and a hit returns the entry of its key.
C24_HitReturnsLastCompletedWrite ==
    [][ /\ (last' # last /\ IsHit(last')) =>
               /\ Stored(staticStore, last'.request.url) = {last'.response}
               /\ Cardinality({j \in 1..Len(staticStore) :
                                   staticStore[j].key = last'.request.url}) = 1
        /\ staticStore' # staticStore =>
               \A key \in Keys(staticStore') :
                   Stored(staticStore', key) # Stored(staticStore, key) =>
                       \/ \E p \in puts \ puts' :
                              /\ p.cache = "static" /\ p.key = key
                              /\ p.by \in {"cacheFirst", "refresh"}
                              /\ Stored(staticStore', key) = {p.response}
                       \/ /\ addAllDone' /\ ~addAllDone
                          /\ key \in StaticAssetUrls
                          /\ Stored(staticStore', key) = {NetworkResponse(200, netSeq')} ]_vars

\* C24 witness: a hit on an asset of the install list returned what a later
\* background refresh had written
C24_Witness ==
    /\ IsHit(last)
    /\ last.request.url \in StaticAssetUrls
    /\ last.response.body > 1
    /\ last.response = Match(staticStore, last.request.url)

\* C25: getOfflineFallback is invoked for a request only after a network
\* fetch for it was attempted and failed and the cache lookup of its
\* strategy found no entry: at least the static-store lookup of cacheFirst,
\* or the lookups of both stores in networkFirst.
C25_FallbackOnlyAfterNetworkAndCacheFailed ==
    \A h \in Handlings :
        h.fallback =>
            /\ h.fetches = 1
            /\ h.netResponse = NoResponse
            /\ h.matches >= (IF h.strategy = "networkFirst" THEN 2 ELSE 1)

\* C26: nothing but the deletion of a whole superseded store removes an
\* entry from the static store: no step of a fetch handling, of a background
\* refresh, of a put or of the maintenance pass takes a key out of it.
C26_StaticStoreNeverLosesAKey ==
    [][ staticStore' # staticStore =>
            /\ Keys(staticStore) \subseteq Keys(staticStore')
            /\ Len(staticStore') >= Len(staticStore) ]_vars

\* C26 witness: a maintenance pass has deleted from the dynamic store while
\* the static store holds the install list and a write-back besides
C26_Witness ==
    /\ PassEnded
    /\ cleanup.deleted = EvictionBatch
    /\ StaticAssetUrls \subseteq Keys(staticStore)
    /\ LogoUrl \in Keys(staticStore)

\* a step in which the message listener ran
MessageStep ==
    /\ host'.events = host.events + 1
    /\ host'.kind = "message"

\* a step in which the install listener ran
InstallStep == host'.installs = host.installs + 1

\* C27 as stated: immediate activation is forced only by a message of type
\* SKIP_WAITING, so skipWaiting() has been called only where such a message
\* has arrived
C27_ActivationForcedOnlyByMessage == skipWaiting => host.skipRequested

\* C27: skipWaiting() is called by the install listener once caches.open and
\* cache.addAll have succeeded, and by the message listener for a message of
\* type SKIP_WAITING; nothing else calls it.  A message of another type,
\* without a type or without data leaves the flag and the lifecycle state as
\* they were, and no message changes the lifecycle state itself
C27_ActivationForcedByInstallOrMessage ==
    [][/\ skipWaiting' # skipWaiting =>
              /\ skipWaiting'
              /\ \/ InstallStep /\ ~host'.install.failed
                 \/ MessageStep /\ host'.data = "SKIP_WAITING"
       /\ InstallStep /\ ~host'.install.failed => skipWaiting'
       /\ MessageStep =>
              /\ lifecycle' = lifecycle
              /\ host'.data = "SKIP_WAITING" => skipWaiting'
              /\ host'.data # "SKIP_WAITING" => skipWaiting' = skipWaiting]_vars

\* a worker whose install failed waits, gets a message of another type and
\* then the SKIP_WAITING message, which is what calls skipWaiting()
C27_Witness ==
    /\ lifecycle = "installed"
    /\ host.install.failed
    /\ host.events = 2
    /\ host.kind = "message"
    /\ host.data = "SKIP_WAITING"
    /\ skipWaiting

\* a step in which the activate listener ran
ActivateStep == host'.activates = host.activates + 1

\* C28: when the install listener runs again and caches.open, the asset
\* fetches and cache.addAll answer as they did in its previous run, the static
\* cache and the set of caches are left as that run left them; when the
\* activate listener runs again and caches.keys and every caches.delete
\* answer as they did in its previous run, the set of caches and both stores
\* are left as that run left them
C28_RedeliveryIsIdempotent ==
    [][/\ (InstallStep /\ host.installs >= 1 /\ host'.install = host.install) =>
              /\ staticStore' = staticStore
              /\ cacheNames' = cacheNames
       /\ (ActivateStep /\ host.activates >= 1 /\ host'.activate = host.activate) =>
              /\ cacheNames' = cacheNames
              /\ staticStore' = staticStore
              /\ dynamicStore' = dynamicStore]_vars

\* install ran twice with success and the same bodies, then activate ran
\* twice with one delete failing both times
C28_Witness ==
    /\ host.installs = 2
    /\ ~host.install.failed
    /\ host.install.seq = 1
    /\ host.activates = 2
    /\ host.kind = "activate"
    /\ host.activate = [keysOk |-> TRUE, failing |-> {OldDynamic}]
    /\ cacheNames = {STATIC_CACHE, OldDynamic, OtherAppCache}
    /\ Keys(staticStore) = StaticAssetUrls
    /\ Len(staticStore) = Len(STATIC_ASSETS)

\* a step in which the notificationclick listener ran
ClickStep ==
    /\ host'.events = host.events + 1
    /\ host'.kind = "notificationclick"

\* C29: a click on the notification closes it whatever its action; with the
\* action 'open' or with no action clients.openWindow is called once; with
\* the action 'close' no window is opened, and the caches, their names and
\* the network fetches and cache writes under way are left as they were
C29_ClickClosesAndOpensUnlessClose ==
    [][ClickStep =>
           /\ host.shown
           /\ ~host'.shown
           /\ host'.data \in {"open", ""} => host'.windows = host.windows + 1
           /\ host'.data = "close" =>
                  /\ host'.windows = host.windows
                  /\ UNCHANGED <<cacheNames, staticStore, dynamicStore, netSeq,
                                 puts, refreshes, handlers, lifecycle>>]_vars

\* the notification a push showed was clicked on its body: it is closed and
\* one window was opened
C29_Witness ==
    /\ host.kind = "notificationclick"
    /\ host.data = ""
    /\ ~host.shown
    /\ host.windows = 1

\* the handling in slot i eventually ends
EventuallyEnds(i) == (handlers[i].pc # "idle") ~> (handlers[i].pc = "idle")

\* C30: when every awaited fetch and cache operation settles, every
\* intercepted GET request eventually receives exactly one response: its
\* handling ends, and it ends with the promise given to respondWith resolved
\* with a response, background updates left pending or not
C30_EveryGetEventuallyResponded ==
    /\ \A i \in Slots : EventuallyEnds(i)
    /\ [][\A i \in Slots :
              (handlers[i].pc # "idle" /\ handlers'[i].pc = "idle") =>
                  last'.outcome = "responded"]_vars

\* C31: every activation ends with clients.claim() called, also when
\* caches.keys or a caches.delete rejects, and clients.claim() is called only
\* once every cache of an older version has been deleted
C31_ActivationAlwaysClaims ==
    /\ lifecycle = "active" => claimed
    /\ claimed => \A name \in cacheNames : ~IsStale(name)

\* C32: with background updates and miss write-backs of one key under way,
\* their fetches and puts settling in any order, an entry of the static cache
\* is never replaced by the response of a fetch issued before the fetch whose
\* response the entry holds (bodies are numbered in the order the fetches
\* were issued)
C32_NeverReplacedByOlderResponse ==
    [][staticStore' # staticStore =>
           \A key \in Keys(staticStore) :
               Match(staticStore', key).body >= Match(staticStore, key).body]_vars

\* C33: every key of the dynamic cache is a URL of another origin whose path
\* is not in STATIC_ASSETS, which matches no network-first pattern and whose
\* path ends in a cacheable extension, and so is every key a cache.put into
\* the dynamic cache is under way for; no same-origin URL is a key of it
C33_DynamicKeysAreCacheableCrossOrigin ==
    \A key \in Keys(dynamicStore) \cup {p.key : p \in {q \in puts : q.cache = "dynamic"}} :
        /\ Origin(key) # LocationOrigin
        /\ ~IsStaticAssetPath(key)
        /\ ~MatchesNetworkFirst(key)
        /\ MatchesDynamicAsset(key)

\* networkFirst has cached a resource not requested before, in a dynamic
\* cache that already held the resources cached earlier
C33_Witness ==
    /\ last.request.url = PhotoUrl(MaxDynamicEntries + 2)
    /\ last.strategy = "networkFirst"
    /\ last.response = NetworkResponse(200, last.response.body)
    /\ Match(dynamicStore, PhotoUrl(MaxDynamicEntries + 2)) = last.response
    /\ PhotoUrl(1) \in Keys(dynamicStore)

\* no timer of closeModal and no history traversal is pending
ModalQuiet == modal.timers = <<>> /\ modal.back = 0

\* C34: after any openModal and closeModal calls, once no timer is pending,
\* a modal that is displayed implies that activeModal is not null and that
\* the backdrop is shown
C34_DisplayedModalHasBackdrop ==
    ModalQuiet =>
        \A m \in ModalIds :
            modal.display[m] = "flex" =>
                modal.activeModal # NoModal /\ modal.backdrop

\* C35: after openModal(m) with no closeModal call after it, activeModal is
\* m once all pending timers have fired, also when openModal(m) was called
\* within 300 ms of an earlier closeModal
C35_OpenedModalStaysActive ==
    (ModalQuiet /\ modal.opened # NoModal) => modal.activeModal = modal.opened

\* C36: after any handleSearch, clearSearch and setQuery calls, filteredItems
\* holds exactly the items whose element is displayed, so that the Enter key
\* clicks a result only when exactly one item is displayed
C36_FilteredItemsAreTheDisplayed ==
    /\ search.handled =>
           {search.filteredItems[i] : i \in 1..Len(search.filteredItems)} = search.displayed
    /\ search.autoClick.card # 0 => search.autoClick.displayed = {search.autoClick.card}

\* C37: after any successful clicks on a copy button, once every copy has
\* settled and every reset timer has fired, the content, the title and the
\* classes of the button are those it had before the first click
C37_CopyButtonIsRestored ==
    (copy.copies = <<>> /\ copy.timers = <<>>) =>
        /\ copy.innerHTML = NewCopyButton.innerHTML
        /\ copy.title = NewCopyButton.title
        /\ ~copy.copied

\* the cards among the elements with a data-category attribute
FilterCards == {e \in ElementIds : FilterElements[e].kind = "card"}

\* C38: after any filter clicks, once every show timer has fired, the
\* displayed cards are exactly the cards of the category clicked last (all
\* cards for 'all')
C38_DisplayedCardsAreOfLastCategory ==
    (filter.timers = {} /\ filter.clicked # "none") =>
        filter.displayed \cap FilterCards =
            {e \in FilterCards : shouldShow(filter.clicked, e)}

\* the call that ends a burst: the last call, or a call that the next one
\* follows by wait or more
EndsBurst(j) ==
    \/ j = Len(debounce.calls)
    \/ debounce.calls[j + 1].time >= debounce.calls[j].time + Wait

\* the runs the bursts ended so far call for: one per burst whose timer is
\* no longer pending, wait after its last call and with its arguments
RunsOfBursts ==
    LET ids == [j \in 1..Len(debounce.calls) |-> j]
        ended == SelectSeq(ids, LAMBDA j : EndsBurst(j) /\ \A t \in debounce.timers : t.id # j)
    IN  [k \in 1..Len(ended) |->
            [time |-> debounce.calls[ended[k]].time + Wait,
             args |-> debounce.calls[ended[k]].args]]

\* C39: debounce with immediate unset runs the wrapped function exactly once
\* per burst, wait after the last call of the burst and with the arguments
\* of that call; the only timer ever pending is that of the last call, so
\* the function never runs while the timer of a later call is pending
C39_RunsOncePerBurst ==
    /\ debounce.runs = RunsOfBursts
    /\ \A t \in debounce.timers :
           /\ t.id = Len(debounce.calls)
           /\ t.left = debounce.calls[t.id].time + Wait - debounce.now
           /\ t.left >= 0

\* two calls less than wait apart, then a third call wait or more after the
\* second: func has run for the second and for the third call, not for the first
C39_Witness ==
    /\ Len(debounce.calls) = 3
    /\ debounce.calls[2].time < debounce.calls[1].time + Wait
    /\ debounce.calls[1].args # debounce.calls[2].args
    /\ debounce.calls[3].time >= debounce.calls[2].time + Wait
    /\ Len(debounce.runs) = 2
    /\ debounce.runs[1].args = debounce.calls[2].args
    /\ debounce.timers = {}

====
